---------------------------- MODULE Spec2Model ----------------------------
(***************************************************************************)
(* Model of the RA4M1 (Arduino UNO R4 Minima) demonstration sketch         *)
(* M4_Minima_Test_Code_Fast-PWM_SPI_IRQ_ADC_DAC_SCI_1a.ino:                *)
(*   - setup() and the register writes of setup_spi1, setup_spi0,          *)
(*     setup_adc, setup_dac and setup_timers, one write per step;          *)
(*   - timer7interrupt, one step per statement group, with the reads of    *)
(*     the SPI status and data registers left to the hardware;             *)
(*   - the four small interrupt handlers and loop().                       *)
(*                                                                         *)
(* Values.  A register or variable of at most 31 significant bits is a     *)
(* natural number.  The 32-bit quantities that can have bit 31 set         *)
(* (phaccu0, tword_m0, the module-stop registers and the GTSSR/GTPSR/GTCSR *)
(* registers) are pairs <<high half, low half>> of 16-bit numbers.         *)
(***************************************************************************)
EXTENDS Integers, Sequences, FiniteSets, TLC

VARIABLES
  reg,                \* memory-mapped registers: register name -> value
  isr_vec,            \* ICU slot -> handler attached by attachInterrupt
  calls,              \* the calls setup() makes, in order
  call,               \* index in calls of the setup call being executed
  step,               \* index of the next register write of that call
  retVal8,            \* setup(): uint8_t retVal8
  main_pc,            \* position of the main thread (setup, then loop)
  isr_pc,             \* position of the running interrupt handler, or "idle"
  irqs,               \* GPT7 overflows this behaviour still serves
  invocations,        \* history: entries of timer7interrupt so far
  scan,               \* history: which conversion each ADC value comes from
  sineFlag,
  adc_val_A1, adc_val_A2,
  loop_counter, loopFlag, actionFlag,
  dfreq0,             \* in units of 1/16.384 Hz (the value is dfreq0 * 16.384)
  phaccu0, tword_m0,  \* unsigned long: pairs <<high 16 bits, low 16 bits>>
  icount0, directionFlag,
  spi0_received_val, spi1_received_val,
  localValA1, localValA2, localCount, test   \* statics of timer7interrupt

vars == <<reg, isr_vec, calls, call, step, retVal8, main_pc, isr_pc, irqs,
          invocations, scan,
          sineFlag, adc_val_A1, adc_val_A2, loop_counter, loopFlag,
          actionFlag, dfreq0, phaccu0, tword_m0, icount0, directionFlag,
          spi0_received_val, spi1_received_val,
          localValA1, localValA2, localCount, test>>

\* the program variables (everything but the registers and the positions)
globals == <<sineFlag, adc_val_A1, adc_val_A2, loop_counter, loopFlag,
             actionFlag, dfreq0, phaccu0, tword_m0, icount0, directionFlag,
             spi0_received_val, spi1_received_val,
             localValA1, localValA2, localCount, test>>

setupState == <<isr_vec, calls, call, step, retVal8>>

-----------------------------------------------------------------------------
(* Bounds of the model *)

\* GPT7 overflow interrupts served in one behaviour from reset
MaxIrq == 1
\* GPT7 overflow interrupts served in one behaviour of the running sketch
MaxIrqRun == 1

-----------------------------------------------------------------------------
(* Bit operations on naturals *)

RECURSIVE BitAnd(_, _)
BitAnd(a, b) ==
  IF a = 0 \/ b = 0 THEN 0
  ELSE (a % 2) * (b % 2) + 2 * BitAnd(a \div 2, b \div 2)

RECURSIVE BitOr(_, _)
BitOr(a, b) ==
  IF a = 0 THEN b
  ELSE IF b = 0 THEN a
  ELSE (IF a % 2 = 1 \/ b % 2 = 1 THEN 1 ELSE 0) + 2 * BitOr(a \div 2, b \div 2)

\* a & ~m
BitClr(a, m) == a - BitAnd(a, m)

Shl(a, n) == a * 2^n
Shr(a, n) == a \div 2^n
Bit(a, n) == (a \div 2^n) % 2

(* 32-bit unsigned values as pairs <<high half, low half>> *)
U32(hi, lo) == <<hi, lo>>
ToU32(n) == <<n \div 65536, n % 65536>>
\* a faulty variant of Add32: the carry out of the low half is dropped
Add32NoCarry(a, b) == <<(a[1] + b[1]) % 65536, (a[2] + b[2]) % 65536>>
Add32(a, b) ==
  LET lo == a[2] + b[2]
      hi == a[1] + b[1] + lo \div 65536
  IN  <<hi % 65536, lo % 65536>>
\* a >> n for 16 <= n < 32: the result has at most 16 bits
Shr32(a, n) == a[1] \div 2^(n - 16)
\* a & ~(1 << n)
ClrBit32(a, n) ==
  IF n >= 16 THEN <<BitClr(a[1], 2^(n - 16)), a[2]>>
             ELSE <<a[1], BitClr(a[2], 2^n)>>

-----------------------------------------------------------------------------
(* Constants of the sketch *)

IRQ_PORT_IRQ0 == \h01
IRQ_PORT_IRQ1 == \h02
IRQ_GPT7_OVF  == \h95
IRQ_SPI0_SPRI == \hAD
IRQ_SPI0_SPTI == \hAE
IRQ_SPI0_SPEI == \hB0
IRQ_SPI1_SPRI == \hB2
IRQ_SPI1_SPTI == \hB3
IRQ_SPI1_SPEI == \hB5

MSTPB18 == 18
MSTPB19 == 19
MSTPD5  == 5
MSTPD6  == 6
MSTPD16 == 16
MSTPD20 == 20

SPCR_MSTR  == 3
\* a faulty variant of SPCR_SPEIE: the error interrupt enable lands on MSTR
SpeieAsMstr == SPCR_MSTR
SPCR_SPEIE == 4
SPCR_SPTIE == 5
SPCR_SPE   == 6
\* a faulty variant of SPCR_SPRIE: the receive interrupt enable lands on SPE
SprieAsSpe == SPCR_SPE
SPCR_SPRIE == 7
SPSR_MODF  == 2
SPSR_UDRF  == 4
SPSR_SPTEF == 5
SPSR_SPRF  == 7
SPDCR_SPLW == 5
\* a faulty variant of SPCMD0_SPB_0_3: the data length is shifted to bit 5
SpbAsSplw == SPDCR_SPLW
SPCMD0_SPB_0_3 == 8

SPI_BR_8M0Hz == \h02
SPI_BITS_32  == 2
SPI_MASTER == TRUE
\* a faulty variant of SPI_SLAVE: the slave controller is set up as a master
SlaveAsMaster == TRUE
SPI_SLAVE  == FALSE
SPI_IRQEN  == TRUE
\* a faulty variant of SPI_POLL: the polled controller is set up with
\* interrupts
PollAsIrqen == SPI_IRQEN
SPI_POLL   == FALSE

LOOP_COUNT_VAL == 24000


-----------------------------------------------------------------------------
(* Register writes.  A setup function is the sequence of its register      *)
(* accesses; every access is one step of the main thread.                  *)
(*   set      *R  = v            or       *R |= v                          *)
(*   clr      *R &= ~v           clr32    *R &= (0xFFFFFFFF - (1 << v))    *)
(*   set32    *R  = v, v a pair  attach   attachInterrupt(pin, h, FALLING) *)
(*   delay    delayMicroseconds  ret      retVal8 = *R                     *)

Set(r, v)      == [k |-> "set",    r |-> r, v |-> v, h |-> "-"]
Set32(r, v)    == [k |-> "set32",  r |-> r, v |-> v, h |-> "-"]
\* a 16-bit store to the low half of a 32-bit register (SPDR_HA)
SetHalf(r, v)  == [k |-> "set16",  r |-> r, v |-> v, h |-> "-"]
Or(r, v)       == [k |-> "or",     r |-> r, v |-> v, h |-> "-"]
Clr(r, v)      == [k |-> "clr",    r |-> r, v |-> v, h |-> "-"]
Clr32(r, v)    == [k |-> "clr32",  r |-> r, v |-> v, h |-> "-"]
Attach(r, v, h) == [k |-> "attach", r |-> r, v |-> v, h |-> h]
Delay(us)      == [k |-> "delay",  r |-> "-", v |-> us, h |-> "-"]
Ret(r)         == [k |-> "ret",    r |-> r, v |-> 0, h |-> "-"]

\* the ICU slot an IELSR register belongs to
SlotOf(r) ==
  CASE r = "ICU_IELSR05" -> 5
    [] r = "ICU_IELSR06" -> 6
    [] r = "ICU_IELSR07" -> 7
    [] r = "ICU_IELSR08" -> 8

\* setup(), up to the first setup_ call: the interrupt "hijacks".
\* attachInterrupt takes the next free slot and links it to the pin's IRQ.
setup_hijack ==
  << Attach("ICU_IELSR05", IRQ_PORT_IRQ0, "timer7interrupt"),
     Set("ICU_IELSR05", IRQ_GPT7_OVF),
     Set("PFS_P111PFS", 0),
     Attach("ICU_IELSR06", IRQ_PORT_IRQ1, "spiErrorInterrupt"),
     Set("PFS_P000PFS", 0),
     Set("ICU_IELSR06", IRQ_SPI0_SPEI),
     Attach("ICU_IELSR07", IRQ_PORT_IRQ1, "spiReceiveInterrupt"),
     Set("PFS_P001PFS", 0),
     Set("ICU_IELSR07", IRQ_SPI0_SPRI),
     Attach("ICU_IELSR08", IRQ_PORT_IRQ1, "spiTransmitInterrupt"),
     Set("PFS_P002PFS", 0),
     Set("ICU_IELSR08", IRQ_SPI0_SPTI),
     Set("PFS_P107PFS_BY", \h04) >>

setup_spi0(MSmode, bitRate, numBits, IRQmode) ==
  << Clr32("MSTP_MSTPCRB", MSTPB19),
     Set("SPI0_SPCR", \h00),
     Set("SPI0_SSLP", \h00) >>
  \o (IF MSmode
      THEN << Set("SPI0_SPBR", bitRate),
              Set("SPI0_SPPCR", \h30),
              Set("SPI0_SPCR2", \h10),
              Set("SPI0_SPCMD0", \hE001) >>
      ELSE << Set("SPI0_SPBR", \h00),
              Set("SPI0_SPCMD0", \h0001),
              Set("SPI0_SPCKD", \h00),
              Set("SPI0_SSLND", \h00),
              Set("SPI0_SPND", \h00),
              Set("SPI0_SPCR2", \h00) >>)
  \o (IF numBits >= 4
      THEN << Set("SPI0_SPDCR", \h00),
              SetHalf("SPI0_SPDR", \hAAAA) >>
      ELSE << Or("SPI0_SPDCR", Shl(1, SPDCR_SPLW)),
              Set("SPI0_SPDR", \h55555555) >>)
  \o << Or("SPI0_SPCMD0", Shl(numBits, SPCMD0_SPB_0_3)),
        Set("PFS_P103PFS", Shl(6, 24)),
        Or("PFS_P103PFS", Shl(1, 16)),
        Set("PFS_P102PFS", Shl(6, 24)),
        Or("PFS_P102PFS", Shl(1, 16)),
        Set("PFS_P101PFS", Shl(6, 24)),
        Or("PFS_P101PFS", Shl(1, 16)),
        Set("PFS_P100PFS", Shl(6, 24)),
        Or("PFS_P100PFS", Shl(1, 16)),
        Or("PFS_P100PFS", Shl(1, 4)) >>
  \o (IF IRQmode
      THEN << Set("ICU_IELSR06", IRQ_SPI0_SPEI),
              Set("ICU_IELSR07", IRQ_SPI0_SPRI),
              Set("ICU_IELSR08", IRQ_SPI0_SPTI),
              Or("SPI0_SPCR", Shl(1, SPCR_SPTIE)),
              Or("SPI0_SPCR", Shl(1, SPCR_SPRIE)),
              Or("SPI0_SPCR", Shl(1, SPCR_SPEIE)) >>
      ELSE << >>)
  \o (IF MSmode THEN << Or("SPI0_SPCR", \h48) >>
                ELSE << Or("SPI0_SPCR", \h40) >>)
  \o << Ret("SPI0_SPCR") >>

setup_spi1(MSmode, bitRate, numBits, IRQmode) ==
  << Clr32("MSTP_MSTPCRB", MSTPB18),
     Set("SPI1_SPCR", \h00),
     Set("SPI1_SSLP", \h00) >>
  \o (IF MSmode
      THEN << Set("SPI1_SPBR", bitRate),
              Set("SPI1_SPPCR", \h30),
              Set("SPI1_SPCR2", \h10),
              Set("SPI1_SPCMD0", \hE001) >>
      ELSE << Set("SPI1_SPCMD0", \h0001) >>)
  \o (IF numBits >= 4
      THEN << Set("SPI1_SPDCR", \h00),
              SetHalf("SPI1_SPDR", \hAAAA) >>
      ELSE << Or("SPI1_SPDCR", Shl(1, SPDCR_SPLW)),
              Set("SPI1_SPDR", \h55555555) >>)
  \o << Or("SPI1_SPCMD0", Shl(numBits, SPCMD0_SPB_0_3)),
        Set("PFS_P112PFS", Shl(6, 24)),
        Or("PFS_P112PFS", Shl(1, 16)),
        Set("PFS_P111PFS", Shl(6, 24)),
        Or("PFS_P111PFS", Shl(1, 16)),
        Set("PFS_P110PFS", Shl(6, 24)),
        Or("PFS_P110PFS", Shl(1, 16)),
        Set("PFS_P109PFS", Shl(6, 24)),
        Or("PFS_P109PFS", Shl(1, 16)) >>
  \o (IF IRQmode
      THEN << Set("ICU_IELSR06", IRQ_SPI1_SPEI),
              Set("ICU_IELSR07", IRQ_SPI1_SPRI),
              Set("ICU_IELSR08", IRQ_SPI1_SPTI),
              Or("SPI1_SPCR", Shl(1, SPCR_SPTIE)),
              Or("SPI1_SPCR", Shl(1, SPCR_SPRIE)),
              Or("SPI1_SPCR", Shl(1, SPCR_SPEIE)) >>
      ELSE << >>)
  \o (IF MSmode THEN << Or("SPI1_SPCR", \h48) >>
                ELSE << Or("SPI1_SPCR", \h40) >>)
  \o << Ret("SPI1_SPCR") >>

\* a faulty variant of setup_adc: the start of a conversion at its end (src
\* 1962, commented out in the sketch) is active
setup_adc_started ==
  << Clr32("MSTP_MSTPCRD", MSTPD16),
     Set("ADC140_ADHVREFCNT", \h01),
     Set("ADC140_ADCER", \h06),
     Or("ADC140_ADCSR", Shl(1, 6)),
     Or("ADC140_ADANSA0", Shl(1, 1)),
     Or("ADC140_ADANSA0", Shl(1, 0)),
     Set("ADC140_ADADC", \h83),
     Or("ADC140_ADADS0", Shl(1, 1)),
     Or("ADC140_ADADS0", Shl(1, 0)),
     Or("ADC140_ADCSR", Shl(1, 15)) >>

setup_adc ==
  << Clr32("MSTP_MSTPCRD", MSTPD16),
     Set("ADC140_ADHVREFCNT", \h01),
     Set("ADC140_ADCER", \h06),
     Or("ADC140_ADCSR", Shl(1, 6)),
     Or("ADC140_ADANSA0", Shl(1, 1)),
     Or("ADC140_ADANSA0", Shl(1, 0)),
     Set("ADC140_ADADC", \h83),
     Or("ADC140_ADADS0", Shl(1, 1)),
     Or("ADC140_ADADS0", Shl(1, 0)) >>

\* a faulty variant of setup_dac: the output is enabled before the
\* reference is selected
setup_dac_early ==
  << Clr32("MSTP_MSTPCRD", MSTPD20),
     Set("DAC12_DADPR", \h00),
     Set("ELC_ELSR12", \h0000),
     Set("DAC12_DAADSCR", \h80),
     Set("DAC12_DAVREFCR", \h00),
     Set("DAC12_DADR0", \h0000),
     Delay(10),
     Set("DAC12_DACR", \h5F),
     Set("DAC12_DAVREFCR", \h01),
     Delay(5),
     Set("DAC12_DADR0", \h0800),
     Set("PFS_P014PFS", 0),
     Or("PFS_P014PFS", Shl(1, 15)) >>

setup_dac ==
  << Clr32("MSTP_MSTPCRD", MSTPD20),
     Set("DAC12_DADPR", \h00),
     Set("ELC_ELSR12", \h0000),
     Set("DAC12_DAADSCR", \h80),
     Set("DAC12_DAVREFCR", \h00),
     Set("DAC12_DADR0", \h0000),
     Delay(10),
     Set("DAC12_DAVREFCR", \h01),
     Set("DAC12_DACR", \h5F),
     Delay(5),
     Set("DAC12_DADR0", \h0800),
     Set("PFS_P014PFS", 0),
     Or("PFS_P014PFS", Shl(1, 15)) >>

setup_timers ==
  << Clr32("MSTP_MSTPCRD", MSTPD6),
     Set("GPT163_GTSTP", \h10010010),
     \* Timer 7 - sawtooth mode
     Set32("GPT167_GTSSR", U32(\h8000, 0)),
     Set32("GPT167_GTPSR", U32(\h8000, 0)),
     Set32("GPT167_GTCSR", U32(\h8000, 0)),
     Set("GPT167_GTUDDTYC", \h1),
     Set("GPT167_GTCNT", \h07F6),
     Set("GPT167_GTCCRA", \h0000),
     Set("GPT167_GTCCRB", \h0000),
     Set("GPT167_GTCCRC", \h0000),
     Set("GPT167_GTCCRD", \h0000),
     Set("GPT167_GTPR", \h7FD),
     Set("GPT167_GTPBR", \h7FD),
     Set("GPT167_GTBER", \h00150000),
     Set("GPT167_GTCR", \h0),
     Set("GPT167_GTIOR", \h00000000),
     Or("GPT167_GTIOR", 9),
     Or("GPT167_GTIOR", Shl(9, 16)),
     Or("GPT167_GTIOR", \h01000100),
     Set("PFS_P304PFS", Shl(3, 24)),
     Or("PFS_P304PFS", Shl(1, 16)),
     Set("PFS_P303PFS", Shl(3, 24)),
     Or("PFS_P303PFS", Shl(1, 16)),
     \* Timer 1 - triangular-wave mode
     Clr32("MSTP_MSTPCRD", MSTPD5),
     Set32("GPT321_GTSSR", U32(\h8000, 0)),
     Set32("GPT321_GTPSR", U32(\h8000, 0)),
     Set32("GPT321_GTCSR", U32(\h8000, 0)),
     Set("GPT321_GTUDDTYC", \h0),
     Set("GPT321_GTCNT", \h03FF),
     Set("GPT321_GTCCRA", \h0000),
     Set("GPT321_GTCCRB", \h0000),
     Set("GPT321_GTCCRC", \h0000),
     Set("GPT321_GTCCRD", \h0000),
     Set("GPT321_GTPR", \h3FF),
     Set("GPT321_GTPBR", \h3FF),
     Set("GPT321_GTBER", \h00150000),
     Set("GPT321_GTIOR", \h00000000),
     Or("GPT321_GTIOR", 27),
     Or("GPT321_GTIOR", Shl(27, 16)),
     Or("GPT321_GTIOR", \h01000100),
     Set("GPT321_GTCR", \h0),
     Or("GPT321_GTCR", Shl(4, 16)),
     Set("PFS_P104PFS", Shl(3, 24)),
     Or("PFS_P104PFS", Shl(1, 16)),
     Set("PFS_P105PFS", Shl(3, 24)),
     Or("PFS_P105PFS", Shl(1, 16)),
     \* Timer 4 - basic timing
     Set32("GPT164_GTSSR", U32(\h8000, 0)),
     Set32("GPT164_GTPSR", U32(\h8000, 0)),
     Set32("GPT164_GTCSR", U32(\h8000, 0)),
     Set("GPT164_GTUDDTYC", \h1),
     Set("GPT164_GTCNT", \h000),
     Set("GPT164_GTCCRB", \h1FF),
     Set("GPT164_GTCCRD", \h1FF),
     Set("GPT164_GTPR", \h7FD),
     Set("GPT164_GTPBR", \h7FD),
     Set("GPT164_GTIOR", \h00090000),
     Or("GPT164_GTIOR", \h01000000),
     Set("GPT164_GTCR", \h0),
     Set("PFS_P204PFS", Shl(3, 24)),
     Or("PFS_P204PFS", Shl(1, 16)),
     \* all timers
     Set("GPT164_GTSTR", \h10010010),
     Or("GPT167_GTCR", \h1),
     Or("GPT321_GTCR", \h1),
     Or("GPT164_GTCR", \h1),
     Set("GPT164_GTCLR", \h10010010) >>

\* setup(), after setup_timers: the millis counter is disabled
setup_agt == << Set("AGT0_AGTCR", 0) >>

\* a call of setup(): the function and its arguments
Call(fn, MSmode, bitRate, numBits, IRQmode) ==
  [fn |-> fn, MSmode |-> MSmode, bitRate |-> bitRate,
   numBits |-> numBits, IRQmode |-> IRQmode]
CallV(fn) == Call(fn, FALSE, 0, 0, FALSE)

\* the register accesses of one call
Body(c) ==
  CASE c.fn = "setup_hijack" -> setup_hijack
    [] c.fn = "setup_spi1"   -> setup_spi1(c.MSmode, c.bitRate, c.numBits, c.IRQmode)
    [] c.fn = "setup_spi0"   -> setup_spi0(c.MSmode, c.bitRate, c.numBits, c.IRQmode)
    [] c.fn = "setup_adc"    -> setup_adc
    [] c.fn = "setup_dac"    -> setup_dac
    [] c.fn = "setup_timers" -> setup_timers
    [] c.fn = "setup_agt"    -> setup_agt

\* the calls of setup(), in the order of the source
setup ==
  << CallV("setup_hijack"),
     Call("setup_spi1", SPI_MASTER, SPI_BR_8M0Hz, SPI_BITS_32, SPI_IRQEN),
     Call("setup_spi0", SPI_SLAVE, SPI_BR_8M0Hz, SPI_BITS_32, SPI_POLL),
     CallV("setup_adc"),
     CallV("setup_dac"),
     CallV("setup_timers"),
     CallV("setup_agt") >>



-----------------------------------------------------------------------------
(* Registers *)

RegsOf(ops) == {ops[i].r : i \in DOMAIN ops} \ {"-"}

\* every register the sketch accesses
Regs ==
  RegsOf(setup_hijack)
  \cup RegsOf(setup_spi0(TRUE, 0, 4, TRUE)) \cup RegsOf(setup_spi0(FALSE, 0, 0, FALSE))
  \cup RegsOf(setup_spi1(TRUE, 0, 4, TRUE)) \cup RegsOf(setup_spi1(FALSE, 0, 0, FALSE))
  \cup RegsOf(setup_adc) \cup RegsOf(setup_dac) \cup RegsOf(setup_timers)
  \cup RegsOf(setup_agt)
  \cup {"ADC140_ADDR00", "ADC140_ADDR01", "PFS_P106PFS_BY",
        "SPI0_SPSR", "SPI1_SPSR"}

\* registers held as pairs <<high half, low half>>
WideRegs ==
  {"MSTP_MSTPCRB", "MSTP_MSTPCRD",
   "GPT167_GTSSR", "GPT167_GTPSR", "GPT167_GTCSR",
   "GPT321_GTSSR", "GPT321_GTPSR", "GPT321_GTCSR",
   "GPT164_GTSSR", "GPT164_GTPSR", "GPT164_GTCSR"}

\* the registers before setup(): all modules stopped, everything else clear
ResetValue(r) ==
  IF r \in {"MSTP_MSTPCRB", "MSTP_MSTPCRD"} THEN U32(\hFFFF, \hFFFF)
  ELSE IF r \in WideRegs THEN U32(0, 0)
  ELSE 0

\* the registers after one access
NewValue(op, v) ==
  CASE op.k \in {"set", "set32", "attach"} -> op.v
    [] op.k = "set16" -> (v \div 65536) * 65536 + op.v
    [] op.k = "or"    -> BitOr(v, op.v)
    [] op.k = "clr"   -> BitClr(v, op.v)
    [] op.k = "clr32" -> ClrBit32(v, op.v)

Writes(op) == op.k \in {"set", "set16", "set32", "attach", "or", "clr", "clr32"}

\* the module stop bit of the module register r belongs to, as <<control
\* register, bit>> (src 340-356), and << >> for a register of the ICU, of
\* the ports or of a module the sketch does not release itself
ModuleStop(r) ==
  LET m == SubSeq(r, 1, 4)
  IN  CASE m = "SPI1" -> <<"MSTP_MSTPCRB", MSTPB18>>
        [] m = "SPI0" -> <<"MSTP_MSTPCRB", MSTPB19>>
        [] m = "GPT3" -> <<"MSTP_MSTPCRD", MSTPD5>>
        [] m = "GPT1" -> <<"MSTP_MSTPCRD", MSTPD6>>
        [] m = "ADC1" -> <<"MSTP_MSTPCRD", MSTPD16>>
        [] m = "DAC1" -> <<"MSTP_MSTPCRD", MSTPD20>>
        [] OTHER      -> << >>

\* register r belongs to a module that is in the module stop state in
\* register file rg: the module has no clock until its setup function
\* clears the bit ("Enable ... module"), its registers keep their reset
\* values and a write to them has no effect
Stopped(rg, r) ==
  LET m == ModuleStop(r)
  IN  /\ m # << >>
      /\ Bit(rg[m[1]][IF m[2] >= 16 THEN 1 ELSE 2], m[2] % 16) = 1

Apply(op, rg) ==
  IF Writes(op) /\ ~Stopped(rg, op.r)
  THEN [rg EXCEPT ![op.r] = NewValue(op, rg[op.r])]
  ELSE rg

\* the value of one register after a sequence of accesses to it
RECURSIVE ValueAfter(_, _)
ValueAfter(ops, v) ==
  IF ops = << >> THEN v ELSE ValueAfter(Tail(ops), NewValue(Head(ops), v))

\* the registers after a sequence of accesses
ApplyAll(ops, rg) ==
  [r \in DOMAIN rg |->
     LET To(op) == Writes(op) /\ op.r = r
     IN  ValueAfter(SelectSeq(ops, To), rg[r])]

-----------------------------------------------------------------------------
(* What the hardware may present to the handler.  SPI0_SPSR and SPI1_SPSR  *)
(* are status registers: the controller decides what a read returns, and   *)
(* reg holds for them the value the sketch stored last.  A read of         *)
(* SPDR returns the receive buffer, a write goes to the transmit buffer,   *)
(* which is what reg holds for SPI0_SPDR and SPI1_SPDR.                    *)

\* values a read of SPI0_SPSR may return: nothing, receive full and transmit
\* empty, a mode fault, an underrun (MODF and UDRF)
Spsr0Reads == {\h00, \hA0, \h04, \h14}
\* values a read of SPI1_SPSR may return: receive buffer empty or full
Spsr1Reads == {\h00, \h80}
\* the word a read of SPI0_SPDR / SPI1_SPDR returns
Spdr0Reads == {\h12345678}
Spdr1Reads == {\h0BADCAFE}
\* results of one scan of the ADC: <<ADDR00, ADDR01>>, 14 bits right-aligned
AdcSamples == {<<\h2ABC, \h0010>>, <<\h3FFF, \h0000>>}

\* The history of the ADC values, in numbers of invocations of
\* timer7interrupt (0: none, the reset value):
\*   by      the invocation whose write of ADST started the scan that is in
\*           progress, or that ended last
\*   r0, r1  the invocations that started the scans whose results ADDR00
\*           and ADDR01 hold
\*   v1, v2  the same for the values in adc_val_A1 and adc_val_A2
\* Scans(b, r, v): the scan of invocation b was the last to start, the data
\* registers hold the results of the scan of r and the variables those of v.
Scans(b, r, v) == [by |-> b, r0 |-> r, r1 |-> r, v1 |-> v, v2 |-> v]

-----------------------------------------------------------------------------
(* Initial state: the statics as the C runtime initialises them, the       *)
(* registers as reset leaves them, the main thread at the top of setup().  *)

InitGlobals ==
  /\ sineFlag = TRUE
  /\ adc_val_A1 = 0 /\ adc_val_A2 = 0
  /\ loop_counter = 0 /\ loopFlag = FALSE /\ actionFlag = FALSE
  /\ dfreq0 = 0
  /\ phaccu0 = ToU32(0) /\ tword_m0 = ToU32(100)
  /\ icount0 = 0 /\ directionFlag = FALSE
  /\ spi0_received_val = 0 /\ spi1_received_val = 0
  /\ localValA1 = 0 /\ localValA2 = 0 /\ localCount = 0 /\ test = 0

Init ==
  /\ reg = [r \in Regs |-> ResetValue(r)]
  /\ isr_vec = [s \in 5..8 |-> "none"]
  /\ calls = setup
  /\ call = 1 /\ step = 1
  /\ retVal8 = 0
  /\ main_pc = "setup"
  /\ isr_pc = "idle"
  /\ irqs = MaxIrq
  /\ invocations = 0
  /\ scan = Scans(0, 0, 0)
  /\ InitGlobals

-----------------------------------------------------------------------------
(* setup(): one register access per step.  Serial.begin and the wait for   *)
(* the USB serial port touch none of the registers modelled here.          *)

\* a setup call has returned
Completed(fn) == \E i \in 1..Len(calls) : calls[i].fn = fn /\ call > i

SetupStep ==
  /\ main_pc = "setup"
  /\ isr_pc = "idle"
  /\ LET ops == Body(calls[call])
         op  == ops[step]
     IN  /\ reg' = Apply(op, reg)
         /\ isr_vec' = IF op.k = "attach"
                       THEN [isr_vec EXCEPT ![SlotOf(op.r)] = op.h]
                       ELSE isr_vec
         /\ retVal8' = IF op.k = "ret" THEN reg[op.r] % 256 ELSE retVal8
         /\ IF step < Len(ops)
            THEN step' = step + 1 /\ UNCHANGED <<call, main_pc>>
            ELSE /\ step' = 1
                 /\ call' = call + 1
                 /\ main_pc' = IF call < Len(calls) THEN "setup" ELSE "loop_test"
  /\ UNCHANGED <<calls, isr_pc, irqs, invocations, scan, globals>>



-----------------------------------------------------------------------------
(* Hardware *)

\* GPT7 counts: the CST bit of its GTCR is set
Gpt7Running == Bit(reg["GPT167_GTCR"], 0) = 1

\* the ICU delivers GPT7 overflow to timer7interrupt through slot 05
Timer7Linked ==
  /\ isr_vec[5] = "timer7interrupt"
  /\ reg["ICU_IELSR05"] = IRQ_GPT7_OVF

\* attachInterrupt(13, timer7interrupt, FALLING) has linked slot 05 to the
\* IRQ of pin 13 and the slot was not given to GPT7 yet (between src 1267
\* and src 1268): a falling edge on the pin enters the handler
Pin13Linked ==
  /\ isr_vec[5] = "timer7interrupt"
  /\ reg["ICU_IELSR05"] = IRQ_PORT_IRQ0

\* an SPI event is linked to slot s and enabled in the SPCR of its controller
SpiEventEnabled(s, ielsr, ev0, ev1, ie) ==
  \/ /\ reg[ielsr] = ev1
     /\ Bit(reg["SPI1_SPCR"], ie) = 1
     /\ Bit(reg["SPI1_SPCR"], SPCR_SPE) = 1
  \/ /\ reg[ielsr] = ev0
     /\ Bit(reg["SPI0_SPCR"], ie) = 1
     /\ Bit(reg["SPI0_SPCR"], SPCR_SPE) = 1

\* ADCSR.ADST: a scan was started and has not ended
AdcBusy(r) == Bit(r["ADC140_ADCSR"], 15) = 1

\* The scan started by ADCSR.ADST converts the two selected channels in
\* turn (ANSA00, then ANSA01; single scan mode).  The first conversion ends:
\* ADDR00 takes its result.  The sketch states no conversion time and never
\* tests ADST, so the step can come at any point of the program.
AdcChannelEnd ==
  /\ AdcBusy(reg)
  /\ scan.r0 # scan.by
  /\ \E s \in AdcSamples :
       reg' = [reg EXCEPT !["ADC140_ADDR00"] = s[1]]
  /\ scan' = [scan EXCEPT !.r0 = scan.by]
  /\ UNCHANGED <<setupState, main_pc, isr_pc, irqs, invocations, globals>>

\* the second conversion ends and with it the scan: ADDR01 takes the result
\* that belongs to the one in ADDR00, and ADST clears
AdcScanEnd ==
  /\ AdcBusy(reg)
  /\ scan.r0 = scan.by
  /\ \E s \in AdcSamples :
       /\ s[1] = reg["ADC140_ADDR00"]
       /\ reg' = [reg EXCEPT !["ADC140_ADDR01"] = s[2],
                             !["ADC140_ADCSR"] = BitClr(@, Shl(1, 15))]
  /\ scan' = [scan EXCEPT !.r1 = scan.by]
  /\ UNCHANGED <<setupState, main_pc, isr_pc, irqs, invocations, globals>>

-----------------------------------------------------------------------------
(* timer7interrupt *)

\* a store of v to register r
Wr(rg, r, v) == IF Stopped(rg, r) THEN rg ELSE [rg EXCEPT ![r] = v]

\* the values a read of status register r may return: one of the values
\* its controller presents, or what the register holds while the module is
\* stopped
Shown(rg, r, presented) == IF Stopped(rg, r) THEN {rg[r]} ELSE presented

\* a faulty variant of DdsIndex: the upper 16 bits
DdsIndex16(ph) == Shr32(ph, 16) % 65536

\* uint16_t (phaccu0 >> 20): the upper 12 bits of the phase accumulator
DdsIndex(ph) == Shr32(ph, 20) % 65536

\* adc_val_A1 >> 2: 14 bits to 12 bits
DacPassThrough(adc) == Shr(adc, 2)

\* the value written to DAC12_DADR0
DacValue(sine, ic, adc) == IF sine THEN ic ELSE DacPassThrough(adc)

\* a faulty variant of PwmClamp: 0x3FF passes
PwmClampOpen(adc) ==
  LET v == Shr(adc, 4)
  IN  IF v = 0 THEN 1 ELSE IF v > \h3FF THEN \h3FE ELSE v

\* localValA1 / localValA2: adc >> 4, kept off 0x000 and 0x3FF
PwmClamp(adc) ==
  LET v == Shr(adc, 4)
  IN  IF v = 0 THEN 1 ELSE IF v >= \h3FF THEN \h3FE ELSE v

\* icount0 >> 2: 12 bits to 10 bits
PwmIndex(ic) == Shr(ic, 2)

T7Pcs == {"adc_A1", "adc_A2", "adc_start", "spi0_clear", "spi0_rx", "spi0_tx",
          "spi0_err", "spi0_errclr", "spi1_clear", "spi1_start", "spi1_poll",
          "spi_end", "dac", "pwm321", "pwm167", "loop_count"}

\* GPT7 overflows, or pin 13 falls while slot 05 is still linked to it, and
\* the handler is entered: D7 high
T7_Enter ==
  /\ isr_pc = "idle"
  /\ \/ Timer7Linked /\ Gpt7Running
     \/ Pin13Linked
  /\ irqs > 0
  /\ irqs' = irqs - 1
  /\ invocations' = invocations + 1
  /\ reg' = Wr(reg, "PFS_P107PFS_BY", \h05)
  /\ isr_pc' = "adc_A1"
  /\ UNCHANGED <<setupState, main_pc, scan, globals>>

\* a faulty variant of T7_AdcA1: a blocking read, the handler waits for the
\* end of the conversion before it reads the result
T7_AdcA1Wait ==
  /\ isr_pc = "adc_A1"
  /\ Bit(reg["ADC140_ADCSR"], 15) = 0
  /\ adc_val_A1' = reg["ADC140_ADDR00"]
  /\ scan' = [scan EXCEPT !.v1 = scan.r0]
  /\ isr_pc' = "adc_A2"
  /\ UNCHANGED <<reg, setupState, main_pc, irqs, invocations, sineFlag, adc_val_A2,
                 loop_counter, loopFlag, actionFlag, dfreq0, phaccu0, tword_m0,
                 icount0, directionFlag, spi0_received_val, spi1_received_val,
                 localValA1, localValA2, localCount, test>>

T7_AdcA1 ==
  /\ isr_pc = "adc_A1"
  /\ adc_val_A1' = reg["ADC140_ADDR00"]
  /\ scan' = [scan EXCEPT !.v1 = scan.r0]
  /\ isr_pc' = "adc_A2"
  /\ UNCHANGED <<reg, setupState, main_pc, irqs, invocations, sineFlag, adc_val_A2,
                 loop_counter, loopFlag, actionFlag, dfreq0, phaccu0, tword_m0,
                 icount0, directionFlag, spi0_received_val, spi1_received_val,
                 localValA1, localValA2, localCount, test>>

T7_AdcA2 ==
  /\ isr_pc = "adc_A2"
  /\ adc_val_A2' = reg["ADC140_ADDR01"]
  /\ scan' = [scan EXCEPT !.v2 = scan.r1]
  /\ isr_pc' = "adc_start"
  /\ UNCHANGED <<reg, setupState, main_pc, irqs, invocations, sineFlag, adc_val_A1,
                 loop_counter, loopFlag, actionFlag, dfreq0, phaccu0, tword_m0,
                 icount0, directionFlag, spi0_received_val, spi1_received_val,
                 localValA1, localValA2, localCount, test>>

\* *ADC140_ADCSR |= (0x01 << 15): the next scan starts, unless one is in
\* progress (ADST is set already) or the ADC is stopped; D7 low
T7_AdcStart ==
  /\ isr_pc = "adc_start"
  /\ reg' = Wr(Wr(reg, "ADC140_ADCSR", BitOr(reg["ADC140_ADCSR"], Shl(1, 15))),
               "PFS_P107PFS_BY", \h04)
  /\ scan' = IF AdcBusy(reg) \/ Stopped(reg, "ADC140_ADCSR")
             THEN scan
             ELSE [scan EXCEPT !.by = invocations]
  /\ isr_pc' = "spi0_clear"
  /\ UNCHANGED <<setupState, main_pc, irqs, invocations, globals>>

\* D6 high; *SPI0_SPSR &= 0xE2 and *SPI0_SPSR |= 0x20: two read-modify-
\* writes of the status register, each on the status r1, r2 it shows
T7_Spi0Clear ==
  /\ isr_pc = "spi0_clear"
  /\ \E r1, r2 \in Shown(reg, "SPI0_SPSR", Spsr0Reads) :
       reg' = Wr(Wr(Wr(reg, "PFS_P106PFS_BY", \h05),
                    "SPI0_SPSR", BitAnd(r1, \hE2)),
                 "SPI0_SPSR", BitOr(r2, Shl(1, SPSR_SPTEF)))
  /\ isr_pc' = "spi0_rx"
  /\ UNCHANGED <<setupState, main_pc, irqs, invocations, scan, globals>>

\* receive buffer full: take the word; otherwise pulse D6
T7_Spi0Rx ==
  /\ isr_pc = "spi0_rx"
  /\ \E r \in Shown(reg, "SPI0_SPSR", Spsr0Reads) :
       /\ test' = BitAnd(r, \h80)
       /\ IF BitAnd(r, \h80) = \h80
          THEN /\ spi0_received_val' \in Spdr0Reads
               /\ reg' = reg
          ELSE /\ spi0_received_val' = spi0_received_val
               /\ reg' = Wr(Wr(reg, "PFS_P106PFS_BY", \h05), "PFS_P106PFS_BY", \h04)
  /\ isr_pc' = "spi0_tx"
  /\ UNCHANGED <<setupState, main_pc, irqs, invocations, scan, sineFlag, adc_val_A1, adc_val_A2,
                 loop_counter, loopFlag, actionFlag, dfreq0, phaccu0, tword_m0,
                 icount0, directionFlag, spi1_received_val,
                 localValA1, localValA2, localCount>>

\* transmit buffer empty: queue the ADC value; otherwise pulse D6
T7_Spi0Tx ==
  /\ isr_pc = "spi0_tx"
  /\ \E r \in Shown(reg, "SPI0_SPSR", Spsr0Reads) :
       /\ test' = BitAnd(r, \h20)
       /\ IF BitAnd(r, \h20) = \h20
          THEN reg' = Wr(reg, "SPI0_SPDR", adc_val_A1)
          ELSE reg' = Wr(Wr(reg, "PFS_P106PFS_BY", \h05), "PFS_P106PFS_BY", \h04)
  /\ isr_pc' = "spi0_err"
  /\ UNCHANGED <<setupState, main_pc, irqs, invocations, scan, sineFlag, adc_val_A1, adc_val_A2,
                 loop_counter, loopFlag, actionFlag, dfreq0, phaccu0, tword_m0,
                 icount0, directionFlag, spi0_received_val, spi1_received_val,
                 localValA1, localValA2, localCount>>

\* the error check when the read of SPI0_SPSR returns r: bit 2 of the status
\* selects the error branch
Spi0ErrRead(r) ==
  /\ isr_pc = "spi0_err"
  /\ test' = BitAnd(r, \h04)
  /\ isr_pc' = IF BitAnd(r, \h04) = \h04 THEN "spi0_errclr" ELSE "spi1_clear"
  /\ UNCHANGED <<reg, setupState, main_pc, irqs, invocations, scan, sineFlag, adc_val_A1, adc_val_A2,
                 loop_counter, loopFlag, actionFlag, dfreq0, phaccu0, tword_m0,
                 icount0, directionFlag, spi0_received_val, spi1_received_val,
                 localValA1, localValA2, localCount>>

\* the error check, for whatever the status register shows
T7_Spi0Err == \E r \in Shown(reg, "SPI0_SPSR", Spsr0Reads) : Spi0ErrRead(r)

\* a faulty variant of T7_Spi0ErrClr: the mask clears the underrun flag
\* (bit 4) instead of bit 2
T7_Spi0ErrClrUdrf ==
  /\ isr_pc = "spi0_errclr"
  /\ \E r \in Shown(reg, "SPI0_SPSR", Spsr0Reads) :
       reg' = Wr(Wr(Wr(reg, "PFS_P106PFS_BY", \h05),
                    "SPI0_SPSR", BitAnd(r, \hEF)),
                 "PFS_P106PFS_BY", \h04)
  /\ isr_pc' = "spi1_clear"
  /\ UNCHANGED <<setupState, main_pc, irqs, invocations, scan, globals>>

\* the error branch: D6 high, *SPI0_SPSR &= 0xFB, a read-modify-write of the
\* status register on the status r it shows, D6 low
T7_Spi0ErrClr ==
  /\ isr_pc = "spi0_errclr"
  /\ \E r \in Shown(reg, "SPI0_SPSR", Spsr0Reads) :
       reg' = Wr(Wr(Wr(reg, "PFS_P106PFS_BY", \h05),
                    "SPI0_SPSR", BitAnd(r, \hFB)),
                 "PFS_P106PFS_BY", \h04)
  /\ isr_pc' = "spi1_clear"
  /\ UNCHANGED <<setupState, main_pc, irqs, invocations, scan, globals>>

\* *SPI1_SPSR &= 0xE2 and *SPI1_SPSR |= 0x20: two read-modify-writes of the
\* status register, each on the status r1, r2 it shows; the IR flag of slot
\* 07 is cleared
T7_Spi1Clear ==
  /\ isr_pc = "spi1_clear"
  /\ \E r1, r2 \in Shown(reg, "SPI1_SPSR", Spsr1Reads) :
       reg' = Wr(Wr(Wr(reg, "SPI1_SPSR", BitAnd(r1, \hE2)),
                    "SPI1_SPSR", BitOr(r2, Shl(1, SPSR_SPTEF))),
                 "ICU_IELSR07", BitClr(reg["ICU_IELSR07"], \h00010000))
  /\ isr_pc' = "spi1_start"
  /\ UNCHANGED <<setupState, main_pc, irqs, invocations, scan, globals>>

\* empty the receive register, send localCount, start the wait loop
T7_Spi1Start ==
  /\ isr_pc = "spi1_start"
  /\ reg' = Wr(reg, "SPI1_SPDR", localCount)
  /\ localCount' = (localCount + 1) % 65536
  /\ test' = 0
  /\ isr_pc' = "spi1_poll"
  /\ UNCHANGED <<setupState, main_pc, irqs, invocations, scan, sineFlag, adc_val_A1, adc_val_A2,
                 loop_counter, loopFlag, actionFlag, dfreq0, phaccu0, tword_m0,
                 icount0, directionFlag, spi0_received_val, spi1_received_val,
                 localValA1, localValA2>>

\* a faulty variant of T7_Spi1Poll: while() instead of for(), the handler
\* waits until the receive buffer is full
T7_Spi1PollWait ==
  /\ isr_pc = "spi1_poll"
  /\ \E r \in Shown(reg, "SPI1_SPSR", Spsr1Reads) :
       \/ /\ BitAnd(r, Shl(1, SPSR_SPRF)) = Shl(1, SPSR_SPRF)
          /\ spi1_received_val' \in Spdr1Reads
          /\ reg' = Wr(Wr(reg, "PFS_P107PFS_BY", \h05), "PFS_P107PFS_BY", \h04)
          /\ test' = test
          /\ isr_pc' = "spi_end"
       \/ /\ BitAnd(r, Shl(1, SPSR_SPRF)) # Shl(1, SPSR_SPRF)
          /\ spi1_received_val' = spi1_received_val
          /\ reg' = reg
          /\ test' = (test + 1) % 256
          /\ isr_pc' = "spi1_poll"
  /\ UNCHANGED <<setupState, main_pc, irqs, invocations, scan, sineFlag, adc_val_A1, adc_val_A2,
                 loop_counter, loopFlag, actionFlag, dfreq0, phaccu0, tword_m0,
                 icount0, directionFlag, spi0_received_val,
                 localValA1, localValA2, localCount>>

\* one pass of for(test = 0; test < 16; test++): receive full ends the loop
T7_Spi1Poll ==
  /\ isr_pc = "spi1_poll"
  /\ test < 16
  /\ \E r \in Shown(reg, "SPI1_SPSR", Spsr1Reads) :
       \/ /\ BitAnd(r, Shl(1, SPSR_SPRF)) = Shl(1, SPSR_SPRF)
          /\ spi1_received_val' \in Spdr1Reads
          /\ reg' = Wr(Wr(reg, "PFS_P107PFS_BY", \h05), "PFS_P107PFS_BY", \h04)
          /\ test' = test
          /\ isr_pc' = "spi_end"
       \/ /\ BitAnd(r, Shl(1, SPSR_SPRF)) # Shl(1, SPSR_SPRF)
          /\ spi1_received_val' = spi1_received_val
          /\ reg' = reg
          /\ test' = test + 1
          /\ isr_pc' = IF test + 1 < 16 THEN "spi1_poll" ELSE "spi_end"
  /\ UNCHANGED <<setupState, main_pc, irqs, invocations, scan, sineFlag, adc_val_A1, adc_val_A2,
                 loop_counter, loopFlag, actionFlag, dfreq0, phaccu0, tword_m0,
                 icount0, directionFlag, spi0_received_val,
                 localValA1, localValA2, localCount>>

\* D6 low, D7 low
T7_SpiEnd ==
  /\ isr_pc = "spi_end"
  /\ reg' = Wr(Wr(reg, "PFS_P106PFS_BY", \h04), "PFS_P107PFS_BY", \h04)
  /\ isr_pc' = "dac"
  /\ UNCHANGED <<setupState, main_pc, irqs, invocations, scan, globals>>

\* soft DDS or ADC pass-through to the DAC
T7_Dac ==
  /\ isr_pc = "dac"
  /\ IF sineFlag
     THEN /\ phaccu0' = Add32(phaccu0, tword_m0)
          /\ icount0' = DdsIndex(phaccu0')
     ELSE UNCHANGED <<phaccu0, icount0>>
  /\ reg' = Wr(reg, "DAC12_DADR0", DacValue(sineFlag, icount0', adc_val_A1))
  /\ isr_pc' = "pwm321"
  /\ UNCHANGED <<setupState, main_pc, irqs, invocations, scan, sineFlag, adc_val_A1, adc_val_A2,
                 loop_counter, loopFlag, actionFlag, dfreq0, tword_m0,
                 directionFlag, spi0_received_val, spi1_received_val,
                 localValA1, localValA2, localCount, test>>

\* duty values of the triangular PWM on D2 (A) and D3 (B)
T7_Pwm321 ==
  /\ isr_pc = "pwm321"
  /\ localValA1' = PwmClamp(adc_val_A1)
  /\ localValA2' = PwmClamp(adc_val_A2)
  /\ reg' = Wr(Wr(reg, "GPT321_GTCCRC", PwmIndex(icount0)),
               "GPT321_GTCCRD", localValA1')
  /\ isr_pc' = "pwm167"
  /\ UNCHANGED <<setupState, main_pc, irqs, invocations, scan, sineFlag, adc_val_A1, adc_val_A2,
                 loop_counter, loopFlag, actionFlag, dfreq0, phaccu0, tword_m0,
                 icount0, directionFlag, spi0_received_val, spi1_received_val,
                 localCount, test>>

\* direction outputs of GPT7, alternating
T7_Pwm167 ==
  /\ isr_pc = "pwm167"
  /\ IF directionFlag
     THEN /\ reg' = Wr(Wr(reg, "GPT167_GTCCRC", \h000), "GPT167_GTCCRD", \h7FD)
          /\ directionFlag' = FALSE
     ELSE /\ reg' = Wr(Wr(reg, "GPT167_GTCCRC", \h7FD), "GPT167_GTCCRD", \h000)
          /\ directionFlag' = TRUE
  /\ isr_pc' = "loop_count"
  /\ UNCHANGED <<setupState, main_pc, irqs, invocations, scan, sineFlag, adc_val_A1, adc_val_A2,
                 loop_counter, loopFlag, actionFlag, dfreq0, phaccu0, tword_m0,
                 icount0, spi0_received_val, spi1_received_val,
                 localValA1, localValA2, localCount, test>>

\* a faulty variant of T7_LoopCount: > instead of >=, the counter wraps one
\* invocation late
T7_LoopCountLate ==
  /\ isr_pc = "loop_count"
  /\ IF (loop_counter + 1) % 65536 > LOOP_COUNT_VAL
     THEN loop_counter' = 0 /\ loopFlag' = TRUE
     ELSE loop_counter' = (loop_counter + 1) % 65536 /\ loopFlag' = loopFlag
  /\ reg' = Wr(Wr(reg, "PFS_P107PFS_BY", \h05), "PFS_P107PFS_BY", \h04)
  /\ isr_pc' = "idle"
  /\ UNCHANGED <<setupState, main_pc, irqs, invocations, scan, sineFlag, adc_val_A1, adc_val_A2,
                 actionFlag, dfreq0, phaccu0, tword_m0, icount0, directionFlag,
                 spi0_received_val, spi1_received_val,
                 localValA1, localValA2, localCount, test>>

\* D7 high, count the invocation, D7 low, return
T7_LoopCount ==
  /\ isr_pc = "loop_count"
  /\ IF (loop_counter + 1) % 65536 >= LOOP_COUNT_VAL
     THEN loop_counter' = 0 /\ loopFlag' = TRUE
     ELSE loop_counter' = (loop_counter + 1) % 65536 /\ loopFlag' = loopFlag
  /\ reg' = Wr(Wr(reg, "PFS_P107PFS_BY", \h05), "PFS_P107PFS_BY", \h04)
  /\ isr_pc' = "idle"
  /\ UNCHANGED <<setupState, main_pc, irqs, invocations, scan, sineFlag, adc_val_A1, adc_val_A2,
                 actionFlag, dfreq0, phaccu0, tword_m0, icount0, directionFlag,
                 spi0_received_val, spi1_received_val,
                 localValA1, localValA2, localCount, test>>

timer7interrupt ==
  \/ T7_Enter \/ T7_AdcA1 \/ T7_AdcA2 \/ T7_AdcStart
  \/ T7_Spi0Clear \/ T7_Spi0Rx \/ T7_Spi0Tx \/ T7_Spi0Err \/ T7_Spi0ErrClr
  \/ T7_Spi1Clear \/ T7_Spi1Start \/ T7_Spi1Poll \/ T7_SpiEnd
  \/ T7_Dac \/ T7_Pwm321 \/ T7_Pwm167 \/ T7_LoopCount

-----------------------------------------------------------------------------
(* The small handlers: pulses on D7 *)

\* a faulty variant of PinStep: the pin is only ever driven high
PinHigh(from, to, v) ==
  /\ isr_pc = from
  /\ reg' = Wr(reg, "PFS_P107PFS_BY", \h05)
  /\ isr_pc' = to
  /\ UNCHANGED <<setupState, main_pc, irqs, invocations, scan, globals>>

\* one write of the D7 monitor pin by a handler
PinStep(from, to, v) ==
  /\ isr_pc = from
  /\ reg' = Wr(reg, "PFS_P107PFS_BY", v)
  /\ isr_pc' = to
  /\ UNCHANGED <<setupState, main_pc, irqs, invocations, scan, globals>>

adcCompleteInterrupt ==
  \/ PinStep("idle", "adi_1", \h05)
  \/ PinStep("adi_1", "idle", \h04)

spiErrorInterrupt ==
  \/ /\ isr_vec[6] = "spiErrorInterrupt"
     /\ SpiEventEnabled(6, "ICU_IELSR06", IRQ_SPI0_SPEI, IRQ_SPI1_SPEI, SPCR_SPEIE)
     /\ PinStep("idle", "spei_1", \h05)
  \/ PinStep("spei_1", "idle", \h04)

spiReceiveInterrupt ==
  \/ /\ isr_vec[7] = "spiReceiveInterrupt"
     /\ SpiEventEnabled(7, "ICU_IELSR07", IRQ_SPI0_SPRI, IRQ_SPI1_SPRI, SPCR_SPRIE)
     /\ PinStep("idle", "spri_1", \h05)
  \/ PinStep("spri_1", "spri_2", \h04)
  \/ PinStep("spri_2", "spri_3", \h05)
  \/ PinStep("spri_3", "idle", \h04)

spiTransmitInterrupt ==
  \/ /\ isr_vec[8] = "spiTransmitInterrupt"
     /\ SpiEventEnabled(8, "ICU_IELSR08", IRQ_SPI0_SPTI, IRQ_SPI1_SPTI, SPCR_SPTIE)
     /\ PinStep("idle", "spti_1", \h05)
  \/ PinStep("spti_1", "idle", \h04)

-----------------------------------------------------------------------------
(* loop() *)

\* tword_m0 = pow(2, 32) * dfreq0 / refclk with refclk = 23460.0 and dfreq0
\* in units of 1/16.384 Hz: floor(d * 2^32 / (16.384 * 23460)), which is
\* floor(d * 13107200 / 1173) = d * 11174 + floor(d * 98 / 1173)
Tword(d) == ToU32(d * 11174 + (d * 98) \div 1173)

loop_test ==
  /\ main_pc = "loop_test" /\ isr_pc = "idle"
  /\ main_pc' = IF loopFlag THEN "loop_dfreq" ELSE "loop_action"
  /\ UNCHANGED <<reg, setupState, isr_pc, irqs, invocations, scan, globals>>

loop_dfreq ==
  /\ main_pc = "loop_dfreq" /\ isr_pc = "idle"
  /\ dfreq0' = adc_val_A1
  /\ main_pc' = "loop_tword"
  /\ UNCHANGED <<reg, setupState, isr_pc, irqs, invocations, scan, sineFlag, adc_val_A1, adc_val_A2,
                 loop_counter, loopFlag, actionFlag, phaccu0, tword_m0, icount0,
                 directionFlag, spi0_received_val, spi1_received_val,
                 localValA1, localValA2, localCount, test>>

loop_tword ==
  /\ main_pc = "loop_tword" /\ isr_pc = "idle"
  /\ tword_m0' = Tword(dfreq0)
  /\ main_pc' = "loop_print"
  /\ UNCHANGED <<reg, setupState, isr_pc, irqs, invocations, scan, sineFlag, adc_val_A1, adc_val_A2,
                 loop_counter, loopFlag, actionFlag, dfreq0, phaccu0, icount0,
                 directionFlag, spi0_received_val, spi1_received_val,
                 localValA1, localValA2, localCount, test>>

\* The five Serial.print calls, one step each: they read (adc_val_A1,
\* nothing, spi1_received_val, nothing, spi0_received_val) and change
\* nothing modelled; the interrupt handlers run between them.
\* Serial.print(adc_val_A1, HEX)
loop_print_A1 ==
  /\ main_pc = "loop_print" /\ isr_pc = "idle"
  /\ main_pc' = "loop_print_sep1"
  /\ UNCHANGED <<reg, setupState, isr_pc, irqs, invocations, scan, globals>>

\* Serial.print(", ")
loop_print_sep1 ==
  /\ main_pc = "loop_print_sep1" /\ isr_pc = "idle"
  /\ main_pc' = "loop_print_spi1"
  /\ UNCHANGED <<reg, setupState, isr_pc, irqs, invocations, scan, globals>>

\* Serial.print(spi1_received_val, HEX)
loop_print_spi1 ==
  /\ main_pc = "loop_print_spi1" /\ isr_pc = "idle"
  /\ main_pc' = "loop_print_sep2"
  /\ UNCHANGED <<reg, setupState, isr_pc, irqs, invocations, scan, globals>>

\* Serial.print(", ")
loop_print_sep2 ==
  /\ main_pc = "loop_print_sep2" /\ isr_pc = "idle"
  /\ main_pc' = "loop_print_spi0"
  /\ UNCHANGED <<reg, setupState, isr_pc, irqs, invocations, scan, globals>>

\* Serial.println(spi0_received_val, HEX)
loop_print_spi0 ==
  /\ main_pc = "loop_print_spi0" /\ isr_pc = "idle"
  /\ main_pc' = "loop_clear"
  /\ UNCHANGED <<reg, setupState, isr_pc, irqs, invocations, scan, globals>>

loop_print ==
  \/ loop_print_A1 \/ loop_print_sep1 \/ loop_print_spi1 \/ loop_print_sep2
  \/ loop_print_spi0

\* a faulty variant of loop_clear: loop() also restarts the phase accumulator
loop_clear_phase ==
  /\ main_pc = "loop_clear" /\ isr_pc = "idle"
  /\ loopFlag' = FALSE
  /\ phaccu0' = ToU32(0)
  /\ main_pc' = "loop_action"
  /\ UNCHANGED <<reg, setupState, isr_pc, irqs, invocations, scan, sineFlag, adc_val_A1, adc_val_A2,
                 loop_counter, actionFlag, dfreq0, tword_m0, icount0,
                 directionFlag, spi0_received_val, spi1_received_val,
                 localValA1, localValA2, localCount, test>>

loop_clear ==
  /\ main_pc = "loop_clear" /\ isr_pc = "idle"
  /\ loopFlag' = FALSE
  /\ main_pc' = "loop_action"
  /\ UNCHANGED <<reg, setupState, isr_pc, irqs, invocations, scan, sineFlag, adc_val_A1, adc_val_A2,
                 loop_counter, actionFlag, dfreq0, phaccu0, tword_m0, icount0,
                 directionFlag, spi0_received_val, spi1_received_val,
                 localValA1, localValA2, localCount, test>>

\* if(actionFlag) actionFlag = FALSE; then loop() returns and is called again
loop_action ==
  /\ main_pc = "loop_action" /\ isr_pc = "idle"
  /\ actionFlag' = FALSE
  /\ main_pc' = "loop_test"
  /\ UNCHANGED <<reg, setupState, isr_pc, irqs, invocations, scan, sineFlag, adc_val_A1, adc_val_A2,
                 loop_counter, loopFlag, dfreq0, phaccu0, tword_m0, icount0,
                 directionFlag, spi0_received_val, spi1_received_val,
                 localValA1, localValA2, localCount, test>>

loop ==
  \/ loop_test \/ loop_dfreq \/ loop_tword \/ loop_print \/ loop_clear
  \/ loop_action

-----------------------------------------------------------------------------
(* Specifications *)

\* from reset: setup(), then the first MaxIrq timer interrupts
NextBoot ==
  \/ SetupStep
  \/ AdcChannelEnd \/ AdcScanEnd
  \/ timer7interrupt
  \/ spiErrorInterrupt \/ spiReceiveInterrupt \/ spiTransmitInterrupt
  \/ loop_test \/ loop_action

Spec == Init /\ [][NextBoot]_vars



\* every register access of setup(), in order
RECURSIVE SetupOps(_)
SetupOps(cs) == IF cs = << >> THEN << >> ELSE Body(Head(cs)) \o SetupOps(Tail(cs))

\* the registers and the attached handlers when setup() returns
SetupRegs == ApplyAll(SetupOps(setup), [r \in Regs |-> ResetValue(r)])
SetupVec ==
  [s \in 5..8 |-> CASE s = 5 -> "timer7interrupt"
                    [] s = 6 -> "spiErrorInterrupt"
                    [] s = 7 -> "spiReceiveInterrupt"
                    [] s = 8 -> "spiTransmitInterrupt"]

\* The state between two timer interrupts after n >= 2 of them, with loop()
\* at position pc, when no SPI flag was seen so far, every scan of the ADC
\* returned sample s and ended before the next interrupt, and n is below
\* LOOP_COUNT_VAL (loopFlag was never set, tword_m0 is still 100). Both SPI
\* status registers hold SPTEF (0x20), the handler's last store to them.
Running(n, s, pc) ==
  /\ reg = [SetupRegs EXCEPT
              !["ADC140_ADDR00"] = s[1],
              !["ADC140_ADDR01"] = s[2],
              !["PFS_P106PFS_BY"] = \h04,
              !["PFS_P107PFS_BY"] = \h04,
              !["SPI0_SPSR"] = Shl(1, SPSR_SPTEF),
              !["SPI1_SPSR"] = Shl(1, SPSR_SPTEF),
              !["SPI1_SPDR"] = n - 1,
              !["DAC12_DADR0"] = DdsIndex(ToU32(100 * n)),
              !["GPT321_GTCCRC"] = PwmIndex(DdsIndex(ToU32(100 * n))),
              !["GPT321_GTCCRD"] = PwmClamp(s[1]),
              !["GPT167_GTCCRC"] = IF n % 2 = 1 THEN \h7FD ELSE \h000,
              !["GPT167_GTCCRD"] = IF n % 2 = 1 THEN \h000 ELSE \h7FD]
  /\ isr_vec = SetupVec
  /\ calls = setup
  /\ call = Len(setup) + 1 /\ step = 1
  /\ retVal8 = \h40
  /\ main_pc = pc
  /\ isr_pc = "idle"
  /\ irqs = MaxIrqRun
  /\ invocations = n
  /\ scan = Scans(n, n, n - 1)
  /\ sineFlag = TRUE
  /\ adc_val_A1 = s[1] /\ adc_val_A2 = s[2]
  /\ loop_counter = n /\ loopFlag = FALSE /\ actionFlag = FALSE
  /\ dfreq0 = 0
  /\ phaccu0 = ToU32(100 * n) /\ tword_m0 = ToU32(100)
  /\ icount0 = DdsIndex(ToU32(100 * n))
  /\ directionFlag = (n % 2 = 1)
  /\ spi0_received_val = 0 /\ spi1_received_val = 0
  /\ localValA1 = PwmClamp(s[1]) /\ localValA2 = PwmClamp(s[2])
  /\ localCount = n
  /\ test = 16

\* the sketch running, one timer interrupt before loop_counter wraps
InitRun ==
  \E s \in AdcSamples : Running(LOOP_COUNT_VAL - 1, s, "loop_test")

NextRun ==
  \/ AdcChannelEnd \/ AdcScanEnd
  \/ timer7interrupt
  \/ spiErrorInterrupt \/ spiReceiveInterrupt \/ spiTransmitInterrupt
  \/ loop

SpecRun == InitRun /\ [][NextRun]_vars

\* the running sketch on a processor that keeps executing: a handler that
\* can take a step takes it, and a pending GPT7 overflow is served
SpecRunFair == SpecRun /\ WF_vars(timer7interrupt)



\* the running sketch with the ADC scan-end interrupt attached as well (the
\* attachInterrupt of adcCompleteInterrupt is commented out in setup())
NextHandlers == NextRun \/ adcCompleteInterrupt

SpecHandlers == InitRun /\ [][NextHandlers]_vars

\* every value of a uint16_t
AdcWords == 0..(2^16 - 1)
\* readings of the 14-bit converter
AdcReadings == 0..(2^14 - 1)
\* readings around the limits of the PWM clamp
AdcEdges == {\h0000, \h000F, \h0010, \h3FEF, \h3FF0, \h3FFF, \h4000, \hFFFF}
\* 32-bit words around the limits of the 12-bit phase index
PhaseWords ==
  { U32(\h0000, \h0000), U32(\h0000, \h0064), U32(\h000F, \hFFFF),
    U32(\h0010, \h0000), U32(\h003F, \hFFFF), U32(\h0040, \h0000),
    U32(\h7FFF, \hFFFF), U32(\h8000, \h0000), U32(\hFFBF, \hFFFF),
    U32(\hFFC0, \h0000), U32(\hFFF0, \h0000), U32(\hFFFF, \hFFFF) }

\* timer7interrupt about to run its DAC stage, with the given values of the
\* variables the DAC and PWM stages read; its SPI stage saw no flag and left
\* SPTEF (0x20) stored in both status registers
DacEntry(sine, a1, a2, ph, tw) ==
  /\ reg = [SetupRegs EXCEPT
              !["ADC140_ADDR00"] = a1,
              !["ADC140_ADDR01"] = a2,
              !["ADC140_ADCSR"] = BitOr(@, Shl(1, 15)),
              !["PFS_P106PFS_BY"] = \h04,
              !["PFS_P107PFS_BY"] = \h04,
              !["SPI0_SPSR"] = Shl(1, SPSR_SPTEF),
              !["SPI1_SPSR"] = Shl(1, SPSR_SPTEF),
              !["SPI1_SPDR"] = 0]
  /\ isr_vec = SetupVec
  /\ calls = setup
  /\ call = Len(setup) + 1 /\ step = 1
  /\ retVal8 = \h40
  /\ main_pc = "loop_test"
  /\ isr_pc = "dac"
  /\ irqs = 0
  /\ invocations = 1
  /\ scan = Scans(1, 0, 0)
  /\ sineFlag = sine
  /\ adc_val_A1 = a1 /\ adc_val_A2 = a2
  /\ loop_counter = 0 /\ loopFlag = FALSE /\ actionFlag = FALSE
  /\ dfreq0 = 0
  /\ phaccu0 = ph /\ tword_m0 = tw
  /\ icount0 = DdsIndex(ph)
  /\ directionFlag = FALSE
  /\ spi0_received_val = 0 /\ spi1_received_val = 0
  /\ localValA1 = 0 /\ localValA2 = 0
  /\ localCount = 1
  /\ test = 16

\* the inputs of the DAC and PWM stages: every ADC word in the sine build,
\* every 14-bit reading in the pass-through build (sineFlag = FALSE, line
\* 1339), and the phase and tuning words around the limits
InitStage ==
  \/ \E a1 \in AdcWords :
       DacEntry(TRUE, a1, \h0010, U32(0, 0), ToU32(100))
  \/ \E a1 \in AdcReadings \cup AdcEdges :
       DacEntry(FALSE, a1, \h0010, U32(0, 0), ToU32(100))
  \/ \E a1 \in AdcEdges, ph \in PhaseWords, tw \in PhaseWords :
       DacEntry(TRUE, a1, \h3FFF, ph, tw)

NextStage == T7_Dac \/ T7_Pwm321 \/ T7_Pwm167 \/ T7_LoopCount

SpecStage == InitStage /\ [][NextStage]_vars

\* n * m mod 2^32 for n below 2^15
MulU32(n, m) ==
  LET lo == n * m[2]
      hi == n * m[1] + lo \div 65536
  IN  <<hi % 65536, lo % 65536>>

\* numbers of invocations served before the one observed
DdsCounts == {0, 1, 2, 3, LOOP_COUNT_VAL - 2}
\* tuning words: the initial one, and words that make the accumulator wrap
DdsWords ==
  { ToU32(100), U32(\h0010, \h0000), U32(\h5555, \hAAAB),
    U32(\h8000, \h0000), U32(\hFFFF, \hFFFF) }

\* timer7interrupt about to run its DAC stage for the (n+1)th time since
\* reset, the tuning word having been m all along; its SPI stage saw no
\* flag and left SPTEF (0x20) stored in both status registers
DdsEntry(n, m) ==
  /\ reg = [SetupRegs EXCEPT
              !["ADC140_ADCSR"] = BitOr(@, Shl(1, 15)),
              !["PFS_P106PFS_BY"] = \h04,
              !["PFS_P107PFS_BY"] = \h04,
              !["SPI0_SPSR"] = Shl(1, SPSR_SPTEF),
              !["SPI1_SPSR"] = Shl(1, SPSR_SPTEF),
              !["SPI1_SPDR"] = n,
              !["DAC12_DADR0"] =
                 IF n = 0 THEN @ ELSE DdsIndex(MulU32(n, m)),
              !["GPT321_GTCCRC"] =
                 IF n = 0 THEN @ ELSE PwmIndex(DdsIndex(MulU32(n, m))),
              !["GPT321_GTCCRD"] = IF n = 0 THEN @ ELSE 1,
              !["GPT167_GTCCRC"] =
                 IF n = 0 THEN @ ELSE IF n % 2 = 1 THEN \h7FD ELSE \h000,
              !["GPT167_GTCCRD"] =
                 IF n = 0 THEN @ ELSE IF n % 2 = 1 THEN \h000 ELSE \h7FD]
  /\ isr_vec = SetupVec
  /\ calls = setup
  /\ call = Len(setup) + 1 /\ step = 1
  /\ retVal8 = \h40
  /\ main_pc = "loop_test"
  /\ isr_pc = "dac"
  /\ irqs = 0
  /\ invocations = n + 1
  /\ scan = Scans(1, 0, 0)
  /\ sineFlag = TRUE
  /\ adc_val_A1 = 0 /\ adc_val_A2 = 0
  /\ loop_counter = n /\ loopFlag = FALSE /\ actionFlag = FALSE
  /\ dfreq0 = 0
  /\ phaccu0 = MulU32(n, m) /\ tword_m0 = m
  /\ icount0 = DdsIndex(MulU32(n, m))
  /\ directionFlag = (n % 2 = 1)
  /\ spi0_received_val = 0 /\ spi1_received_val = 0
  /\ localValA1 = (IF n = 0 THEN 0 ELSE 1)
  /\ localValA2 = (IF n = 0 THEN 0 ELSE 1)
  /\ localCount = n + 1
  /\ test = 16

InitDds == \E n \in DdsCounts, m \in DdsWords : DdsEntry(n, m)

\* the sketch from reset, and the soft DDS after some invocations with one
\* of the tuning words
SpecDds == (Init \/ InitDds) /\ [][NextBoot]_vars

\* the sketch from reset and the running sketch, with all of loop()
NextSketch == NextBoot \/ loop

SpecSketch == (Init \/ InitRun) /\ [][NextSketch]_vars

\* the invocations of timer7interrupt when loop_counter wraps a second time
SecondWrap == 2 * LOOP_COUNT_VAL

\* The state one timer interrupt before the second wrap of loop_counter when
\* loop() is still inside the reporting block it entered after the first
\* wrap: it computed dfreq0 and tword_m0 before the next interrupt and has
\* been held in its Serial.print calls (src 1369-1373, whose duration the
\* sketch does not bound) for LOOP_COUNT_VAL - 1 timer periods. As in
\* Running, no SPI flag was seen and every scan of the ADC returned sample s.
Busy(s) ==
  LET n  == SecondWrap - 1
      ph == Add32(ToU32(100 * LOOP_COUNT_VAL),
                  MulU32(LOOP_COUNT_VAL - 1, Tword(s[1])))
  IN
  /\ reg = [SetupRegs EXCEPT
              !["ADC140_ADDR00"] = s[1],
              !["ADC140_ADDR01"] = s[2],
              !["PFS_P106PFS_BY"] = \h04,
              !["PFS_P107PFS_BY"] = \h04,
              !["SPI0_SPSR"] = Shl(1, SPSR_SPTEF),
              !["SPI1_SPSR"] = Shl(1, SPSR_SPTEF),
              !["SPI1_SPDR"] = n - 1,
              !["DAC12_DADR0"] = DdsIndex(ph),
              !["GPT321_GTCCRC"] = PwmIndex(DdsIndex(ph)),
              !["GPT321_GTCCRD"] = PwmClamp(s[1]),
              !["GPT167_GTCCRC"] = IF n % 2 = 1 THEN \h7FD ELSE \h000,
              !["GPT167_GTCCRD"] = IF n % 2 = 1 THEN \h000 ELSE \h7FD]
  /\ isr_vec = SetupVec
  /\ calls = setup
  /\ call = Len(setup) + 1 /\ step = 1
  /\ retVal8 = \h40
  /\ main_pc = "loop_print"
  /\ isr_pc = "idle"
  /\ irqs = MaxIrqRun
  /\ invocations = n
  /\ scan = Scans(n, n, n - 1)
  /\ sineFlag = TRUE
  /\ adc_val_A1 = s[1] /\ adc_val_A2 = s[2]
  /\ loop_counter = LOOP_COUNT_VAL - 1 /\ loopFlag = TRUE /\ actionFlag = FALSE
  /\ dfreq0 = s[1]
  /\ phaccu0 = ph /\ tword_m0 = Tword(s[1])
  /\ icount0 = DdsIndex(ph)
  /\ directionFlag = (n % 2 = 1)
  /\ spi0_received_val = 0 /\ spi1_received_val = 0
  /\ localValA1 = PwmClamp(s[1]) /\ localValA2 = PwmClamp(s[2])
  /\ localCount = n
  /\ test = 16

InitBusy == \E s \in AdcSamples : Busy(s)

\* the running sketch with loop() held in its reporting block
SpecBusy == InitBusy /\ [][NextRun]_vars

\* The state between two timer interrupts after n >= 2 of them, as in
\* Running, when the scan that invocation n started has not ended: ADST is
\* still set and the data registers hold the results s of the scan before,
\* which are the values invocation n read.
Scanning(n, s) ==
  /\ reg = [SetupRegs EXCEPT
              !["ADC140_ADCSR"] = BitOr(@, Shl(1, 15)),
              !["ADC140_ADDR00"] = s[1],
              !["ADC140_ADDR01"] = s[2],
              !["PFS_P106PFS_BY"] = \h04,
              !["PFS_P107PFS_BY"] = \h04,
              !["SPI0_SPSR"] = Shl(1, SPSR_SPTEF),
              !["SPI1_SPSR"] = Shl(1, SPSR_SPTEF),
              !["SPI1_SPDR"] = n - 1,
              !["DAC12_DADR0"] = DdsIndex(ToU32(100 * n)),
              !["GPT321_GTCCRC"] = PwmIndex(DdsIndex(ToU32(100 * n))),
              !["GPT321_GTCCRD"] = PwmClamp(s[1]),
              !["GPT167_GTCCRC"] = IF n % 2 = 1 THEN \h7FD ELSE \h000,
              !["GPT167_GTCCRD"] = IF n % 2 = 1 THEN \h000 ELSE \h7FD]
  /\ isr_vec = SetupVec
  /\ calls = setup
  /\ call = Len(setup) + 1 /\ step = 1
  /\ retVal8 = \h40
  /\ main_pc = "loop_test"
  /\ isr_pc = "idle"
  /\ irqs = MaxIrqRun
  /\ invocations = n
  /\ scan = Scans(n, n - 1, n - 1)
  /\ sineFlag = TRUE
  /\ adc_val_A1 = s[1] /\ adc_val_A2 = s[2]
  /\ loop_counter = n /\ loopFlag = FALSE /\ actionFlag = FALSE
  /\ dfreq0 = 0
  /\ phaccu0 = ToU32(100 * n) /\ tword_m0 = ToU32(100)
  /\ icount0 = DdsIndex(ToU32(100 * n))
  /\ directionFlag = (n % 2 = 1)
  /\ spi0_received_val = 0 /\ spi1_received_val = 0
  /\ localValA1 = PwmClamp(s[1]) /\ localValA2 = PwmClamp(s[2])
  /\ localCount = n
  /\ test = 16

\* after the second timer interrupt, the first scan having returned the
\* mid-range sample
InitAdc == Scanning(2, <<\h2ABC, \h0010>>)

\* the sketch from reset, and from the second timer interrupt with the ADC
\* still converting
SpecAdc == (Init \/ InitAdc) /\ [][NextBoot]_vars

\* bit rates passed to setup_spi0 and setup_spi1: the fastest, the one
\* setup() uses, the largest of a uint8_t
SpiBitRates == {\h00, SPI_BR_8M0Hz, \hFF}

\* the frame lengths of SPCMD0.SPB: every 4-bit value
SpiNumBits == 0..15

\* one call of setup_spi0 or setup_spi1 from reset, for every combination of
\* arguments
InitSpi ==
  /\ reg = [r \in Regs |-> ResetValue(r)]
  /\ isr_vec = [s \in 5..8 |-> "none"]
  /\ \E fn \in {"setup_spi0", "setup_spi1"}, ms \in BOOLEAN, br \in SpiBitRates,
        nb \in SpiNumBits, irq \in BOOLEAN :
       calls = << Call(fn, ms, br, nb, irq) >>
  /\ call = 1 /\ step = 1
  /\ retVal8 = 0
  /\ main_pc = "setup"
  /\ isr_pc = "idle"
  /\ irqs = 0
  /\ invocations = 0
  /\ scan = Scans(0, 0, 0)
  /\ InitGlobals

NextSpi == SetupStep

SpecSpi == InitSpi /\ [][NextSpi]_vars


-----------------------------------------------------------------------------
(* Properties *)

\* the stage of timer7interrupt a position belongs to
StageOf(pc) ==
  CASE pc = "adc_A1" -> 1
    [] pc = "adc_A2" -> 2
    [] pc = "adc_start" -> 3
    [] pc \in {"spi0_clear", "spi0_rx", "spi0_tx", "spi0_err", "spi0_errclr"} -> 4
    [] pc \in {"spi1_clear", "spi1_start", "spi1_poll", "spi_end"} -> 5
    [] pc = "dac" -> 6
    [] pc = "pwm321" -> 7
    [] pc = "pwm167" -> 8
    [] pc = "loop_count" -> 9
    [] OTHER -> 0

StepsLeft(pc, t) ==
  CASE pc = "adc_A1" -> 31
    [] pc = "adc_A2" -> 30
    [] pc = "adc_start" -> 29
    [] pc = "spi0_clear" -> 28
    [] pc = "spi0_rx" -> 27
    [] pc = "spi0_tx" -> 26
    [] pc = "spi0_err" -> 25
    [] pc = "spi0_errclr" -> 24
    [] pc = "spi1_clear" -> 23
    [] pc = "spi1_start" -> 22
    [] pc = "spi1_poll" -> 5 + (16 - t)
    [] pc = "spi_end" -> 5
    [] pc = "dac" -> 4
    [] pc = "pwm321" -> 3
    [] pc = "pwm167" -> 2
    [] pc = "loop_count" -> 1
    [] OTHER -> 0

\* C2: timer7interrupt always terminates without waiting on hardware: an
\* invocation that has started returns; inside the handler a next step is
\* always possible and every step brings the return strictly closer; the SPI1 receive-full flag is polled at most 16
\* times (each poll either ends the loop or counts up test, which stays below
\* 16 while polling); a poll that finds the flag clear leaves
\* spi1_received_val unchanged, and after the 16th such poll the handler goes
\* on to the DAC write, the PWM compare writes and the loop counter update.
C2_Terminates ==
  /\ (isr_pc \in T7Pcs) ~> (isr_pc = "idle")
  /\ [](isr_pc \in T7Pcs => ENABLED timer7interrupt)
  /\ [](isr_pc = "spi1_poll" => test < 16)
  /\ [][ (isr_pc \in T7Pcs /\ <<isr_pc, test>>' # <<isr_pc, test>>)
           => /\ StepsLeft(isr_pc', test') < StepsLeft(isr_pc, test)
              /\ StepsLeft(isr_pc, test) <= 31
              /\ isr_pc' = "spi1_poll" => test' \in {0, test + 1}
              /\ (isr_pc = "spi1_poll" /\ test' # test)
                   => spi1_received_val' = spi1_received_val
              /\ spi1_received_val' # spi1_received_val
                   => (isr_pc = "spi1_poll" /\ isr_pc' = "spi_end" /\ test' = test)
              /\ (isr_pc = "spi_end" /\ test = 16) => isr_pc' = "dac"
              /\ isr_pc = "dac" => isr_pc' = "pwm321"
              /\ isr_pc = "pwm321" => isr_pc' = "pwm167"
              /\ isr_pc = "pwm167" => isr_pc' = "loop_count"
              /\ isr_pc = "loop_count" => isr_pc' = "idle"
       ]_vars

\* the invocation that wraps loop_counter has returned after 16 polls that
\* found the flag clear: spi1_received_val still has its value, the DAC, the
\* PWM compare registers and the loop counter are updated
C2_Witness ==
  /\ isr_pc = "idle"
  /\ irqs = MaxIrqRun - 1
  /\ test = 16
  /\ spi1_received_val = 0
  /\ reg["DAC12_DADR0"] = DdsIndex(ToU32(100 * LOOP_COUNT_VAL))
  /\ reg["GPT167_GTCCRC"] = \h000 /\ reg["GPT167_GTCCRD"] = \h7FD
  /\ reg["GPT321_GTCCRD"] = localValA1 /\ localValA1 > 0
  /\ loop_counter = 0 /\ loopFlag

\* setup_timers has started a timer (src 1761, 1762, 1764)
TimersStarted ==
  \E r \in {"GPT167_GTCR", "GPT321_GTCR", "GPT164_GTCR"} : Bit(reg[r], 0) = 1

\* C4: during setup() the timers, and with them timer7interrupt, are started
\* only after setup_spi1, setup_spi0, setup_adc and setup_dac have completed:
\* while one of the timers GPT7, GPT1, GPT4 counts or an invocation of the
\* handler is running, all four calls have returned.
C4_TimersLast ==
  (TimersStarted \/ isr_pc \in T7Pcs)
    => /\ Completed("setup_spi1")
       /\ Completed("setup_spi0")
       /\ Completed("setup_adc")
       /\ Completed("setup_dac")

\* C5: after setup() completes SPI1 is an enabled master and SPI0 an enabled
\* slave: SPE and MSTR are set in SPI1_SPCR, SPE is set and MSTR clear in
\* SPI0_SPCR.
C5_MasterAndSlave ==
  main_pc # "setup"
    => /\ Bit(reg["SPI1_SPCR"], SPCR_SPE) = 1
       /\ Bit(reg["SPI1_SPCR"], SPCR_MSTR) = 1
       /\ Bit(reg["SPI0_SPCR"], SPCR_SPE) = 1
       /\ Bit(reg["SPI0_SPCR"], SPCR_MSTR) = 0

\* setup() has returned with both controllers configured
C5_Witness ==
  /\ main_pc = "loop_test"
  /\ reg["SPI1_SPCR"] = \hF8
  /\ reg["SPI0_SPCR"] = \h40


LoopPcs == {"loop_test", "loop_dfreq", "loop_tword", "loop_print",
            "loop_print_sep1", "loop_print_spi1", "loop_print_sep2",
            "loop_print_spi0", "loop_clear", "loop_action"}

\* C6: under any interleaving of timer7interrupt with loop(), adc_val_A1,
\* adc_val_A2, spi0_received_val, spi1_received_val, phaccu0, icount0,
\* directionFlag and loop_counter change only in steps of the interrupt
\* handler, tword_m0 and dfreq0 only in steps of loop(), and loopFlag is
\* written by both: set by the handler when it wraps loop_counter, cleared
\* by loop().
C6_SingleWriter ==
  [][ /\ <<adc_val_A1, adc_val_A2, spi0_received_val, spi1_received_val,
           phaccu0, icount0, directionFlag, loop_counter>>'
           # <<adc_val_A1, adc_val_A2, spi0_received_val, spi1_received_val,
               phaccu0, icount0, directionFlag, loop_counter>>
           => (isr_pc \in T7Pcs /\ main_pc' = main_pc)
      /\ <<tword_m0, dfreq0>>' # <<tword_m0, dfreq0>>
           => /\ isr_pc = "idle" /\ isr_pc' = "idle"
              /\ main_pc \in LoopPcs /\ main_pc' # main_pc
      /\ loopFlag' # loopFlag
           => \/ /\ isr_pc = "loop_count" /\ main_pc' = main_pc
                 /\ loopFlag' /\ loop_counter' = 0
              \/ /\ isr_pc = "idle" /\ isr_pc' = "idle"
                 /\ main_pc = "loop_clear" /\ ~loopFlag'
    ]_vars

\* the handler has wrapped loop_counter and set loopFlag, loop() has taken
\* the ADC value into dfreq0 and tword_m0 and cleared loopFlag
C6_Witness ==
  /\ main_pc = "loop_action"
  /\ loop_counter = 0
  /\ ~loopFlag
  /\ dfreq0 = \h3FFF
  /\ tword_m0 = Tword(\h3FFF)
  /\ irqs = MaxIrqRun - 1

SmallPcs == {"adi_1", "spei_1", "spri_1", "spri_2", "spri_3", "spti_1"}

\* C7: adcCompleteInterrupt, spiErrorInterrupt, spiReceiveInterrupt and
\* spiTransmitInterrupt only pulse the D7 monitor pin and leave it low: every
\* step of these handlers writes D7 and nothing else, the first step drives it
\* high, the returning step drives it low, and no program variable and no
\* other register changes.
C7_PulseOnly ==
  [][ (isr_pc' # isr_pc /\ (isr_pc \in SmallPcs \/ isr_pc' \in SmallPcs))
        => /\ globals' = globals
           /\ main_pc' = main_pc
           /\ setupState' = setupState
           /\ \A r \in Regs \ {"PFS_P107PFS_BY"} : reg'[r] = reg[r]
           /\ reg'["PFS_P107PFS_BY"] \in {\h04, \h05}
           /\ isr_pc = "idle" => reg'["PFS_P107PFS_BY"] = \h05
           /\ isr_pc' = "idle" => reg'["PFS_P107PFS_BY"] = \h04
    ]_vars

\* the SPI receive handler is in its second pulse
C7_Witness ==
  /\ isr_pc = "spri_3"
  /\ reg["PFS_P107PFS_BY"] = \h05

\* C8: every value timer7interrupt writes to DAC12_DADR0 lies in 0..0xFFF:
\* in the sine branch for every phase accumulator and tuning word, in the
\* pass-through branch for every ADC reading of at most 0x3FFF.
C8_DacTwelveBits ==
  (isr_pc = "pwm321" /\ (sineFlag \/ adc_val_A1 <= \h3FFF))
    => /\ reg["DAC12_DADR0"] \in 0..\hFFF
       /\ sineFlag => reg["DAC12_DADR0"] = phaccu0[1] \div 16
       /\ ~sineFlag => reg["DAC12_DADR0"] = adc_val_A1 \div 4

\* the sine branch has written the largest index after the phase
\* accumulator wrapped
C8_Witness ==
  /\ isr_pc = "pwm321"
  /\ sineFlag
  /\ phaccu0 = U32(\hFFFF, \hFFFE)
  /\ reg["DAC12_DADR0"] = \hFFF

\* C9: timer7interrupt never writes 0x000 or 0x3FF to GPT321_GTCCRC or
\* GPT321_GTCCRD, for every ADC reading and every phase accumulator value.
C9_NoEndValues ==
  isr_pc = "pwm167"
    => /\ reg["GPT321_GTCCRC"] \notin {\h000, \h3FF}
       /\ reg["GPT321_GTCCRD"] \notin {\h000, \h3FF}

\* C10: for every 16-bit adc_val_A1 the value timer7interrupt writes to
\* GPT321_GTCCRD is adc_val_A1 >> 4 clamped to 1..0x3FE: the shifted value
\* itself when it lies in 1..0x3FE, 1 when it is 0, 0x3FE when it is 0x3FF or
\* more.
C10_ClampedDuty ==
  isr_pc = "pwm167"
    => LET v == adc_val_A1 \div 16
           w == reg["GPT321_GTCCRD"]
       IN  /\ w \in 1..\h3FE
           /\ v \in 1..\h3FE => w = v
           /\ v = 0 => w = 1
           /\ v >= \h3FF => w = \h3FE

\* the first reading whose shifted value is 0x3FF has been clamped
C10_Witness ==
  /\ isr_pc = "pwm167"
  /\ adc_val_A1 = \h3FF0
  /\ reg["GPT321_GTCCRD"] = \h3FE


\* the DAC stages timer7interrupt has run since reset
DacCount ==
  invocations - (IF isr_pc \in (T7Pcs \ {"pwm321", "pwm167", "loop_count"})
                 THEN 1 ELSE 0)

\* C11: sineFlag stays TRUE; each invocation of timer7interrupt sets phaccu0
\* to (phaccu0 + tword_m0) mod 2^32, writes phaccu0 >> 20 (the upper 12 bits)
\* to DAC12_DADR0 and phaccu0 >> 22 (the upper 10 bits) to GPT321_GTCCRC;
\* after n invocations with a constant tuning word m the accumulator is
\* n * m mod 2^32 (it starts at 0).
C11_PhaseAccumulator ==
  /\ [](sineFlag /\ phaccu0 = MulU32(DacCount, tword_m0))
  /\ [][ /\ (isr_pc = "dac" /\ isr_pc' # isr_pc) =>
              LET dl == phaccu0'[2] - phaccu0[2] - tword_m0[2]
                  dh == phaccu0'[1] - phaccu0[1] - tword_m0[1]
              IN  /\ phaccu0'[1] \in 0..65535 /\ phaccu0'[2] \in 0..65535
                  /\ dl \in {0, -65536}
                  /\ dh + dl \div 65536 \in {0, -65536}
                  /\ reg'["DAC12_DADR0"] = phaccu0'[1] \div 16
                  /\ tword_m0' = tword_m0
         /\ (isr_pc = "pwm321" /\ isr_pc' # isr_pc) =>
              /\ reg'["GPT321_GTCCRC"] = phaccu0[1] \div 64
              /\ phaccu0' = phaccu0
         /\ phaccu0' # phaccu0 => isr_pc = "dac"
       ]_vars

\* the fourth invocation with tuning word 0xFFFFFFFF has wrapped the
\* accumulator to 0xFFFFFFFC and written its upper bits
C11_Witness ==
  /\ isr_pc = "pwm167"
  /\ tword_m0 = U32(\hFFFF, \hFFFF)
  /\ loop_counter = 3
  /\ phaccu0 = U32(\hFFFF, \hFFFC)
  /\ reg["DAC12_DADR0"] = \hFFF
  /\ reg["GPT321_GTCCRC"] = \h3FF


\* the invocations of timer7interrupt that have updated loop_counter: all
\* but the one that is running
CountedInvocations ==
  invocations - (IF isr_pc \in T7Pcs THEN 1 ELSE 0)

\* C12: loop_counter is in 0..LOOP_COUNT_VAL-1 at the exit of every
\* invocation of timer7interrupt (it is the number of invocations modulo
\* LOOP_COUNT_VAL), and the handler sets loopFlag to TRUE in every 24000th
\* invocation and in no other.
C12_LoopCounter ==
  /\ [](/\ loop_counter \in 0..(LOOP_COUNT_VAL - 1)
        /\ loop_counter = CountedInvocations % LOOP_COUNT_VAL)
  /\ [][ /\ (isr_pc = "loop_count" /\ isr_pc' = "idle") =>
              IF invocations % LOOP_COUNT_VAL = 0
              THEN loopFlag' /\ loop_counter' = 0
              ELSE loopFlag' = loopFlag /\ loop_counter' = loop_counter + 1
         /\ (~loopFlag /\ loopFlag') =>
              (isr_pc = "loop_count" /\ invocations % LOOP_COUNT_VAL = 0)
       ]_vars

\* the 24000th invocation has returned with the counter wrapped and the
\* flag set
C12_Witness ==
  /\ isr_pc = "idle"
  /\ invocations = LOOP_COUNT_VAL
  /\ loop_counter = 0
  /\ loopFlag


\* loop() is inside its reporting block: between the test of loopFlag
\* (src 1362) and the statement that clears it (src 1387)
InReport ==
  main_pc \in {"loop_dfreq", "loop_tword", "loop_print", "loop_print_sep1",
              "loop_print_spi1", "loop_print_sep2", "loop_print_spi0",
              "loop_clear"}

\* C13: no loopFlag notification is lost: each time the handler sets loopFlag
\* to TRUE, loop() afterwards starts one pass of its reporting block for that
\* notification before the flag is cleared. loop() clears the flag only at
\* the end of a pass, so this is: the handler never sets loopFlag while
\* loop() is inside the reporting block (such a notification is cleared by
\* the pass that was already under way, and no pass is started for it).
C13_NoLostNotification ==
  [][(isr_pc = "loop_count" /\ isr_pc' = "idle" /\ loop_counter' = 0)
       => ~InReport]_vars


\* the invocations of timer7interrupt that have written the GPT167 pair
PairWrites ==
  invocations - (IF isr_pc \in (T7Pcs \ {"loop_count"}) THEN 1 ELSE 0)

\* the pair (GPT167_GTCCRC, GPT167_GTCCRD) of register file r
Gpt167Pair(r) == <<r["GPT167_GTCCRC"], r["GPT167_GTCCRD"]>>

AdcData(r) == <<r["ADC140_ADDR00"], r["ADC140_ADDR01"]>>

\* no invocation of timer7interrupt has started a conversion
NoStartYet == scan.by = 0

InSetupDac == main_pc = "setup" /\ calls[call].fn = "setup_dac"

\* the access the current call of setup() makes next
NextOp == Body(calls[call])[step]

\* the current call of setup() has already made access op
Made(op) == \E j \in 1..(step - 1) : Body(calls[call])[j] = op

\* C17: in setup_dac DAVREFCR is written 0x00 before the reference is
\* selected (DAVREFCR = 0x01); DADR0 holds 0x0000 at the moment the
\* reference is selected; the output is enabled (DACR = 0x5F) only after the
\* reference has been selected; on return DADR0 = 0x0800 with DAADSCR = 0x80.
C17_DacSequence ==
  /\ [](reg["DAC12_DACR"] = \h5F => reg["DAC12_DAVREFCR"] = \h01)
  /\ [][ (InSetupDac /\ <<call, step>>' # <<call, step>>) =>
           /\ NextOp = Set("DAC12_DAVREFCR", \h01) =>
                /\ Made(Set("DAC12_DAVREFCR", \h00))
                /\ Made(Set("DAC12_DADR0", \h0000))
                /\ reg["DAC12_DADR0"] = \h0000
                /\ reg["DAC12_DACR"] # \h5F
                /\ reg'["DAC12_DAVREFCR"] = \h01
           /\ NextOp = Set("DAC12_DACR", \h5F) =>
                /\ Made(Set("DAC12_DAVREFCR", \h01))
                /\ reg["DAC12_DAVREFCR"] = \h01
                /\ reg'["DAC12_DACR"] = \h5F
           /\ call' # call =>
                /\ reg'["DAC12_DADR0"] = \h0800
                /\ reg'["DAC12_DAADSCR"] = \h80
                /\ reg'["DAC12_DACR"] = \h5F
                /\ reg'["DAC12_DAVREFCR"] = \h01
       ]_vars

\* setup_dac has just returned
C17_Witness ==
  /\ main_pc = "setup"
  /\ calls[call].fn = "setup_timers" /\ step = 1
  /\ Completed("setup_dac")
  /\ reg["DAC12_DADR0"] = \h0800
  /\ reg["DAC12_DAADSCR"] = \h80
  /\ reg["DAC12_DACR"] = \h5F
  /\ reg["DAC12_DAVREFCR"] = \h01


\* the registers of the controller a call of setup_spi0 or setup_spi1 sets up
SpiReg(c, name) ==
  (IF c.fn = "setup_spi0" THEN "SPI0_" ELSE "SPI1_") \o name

\* SPCR.SPE of the controller of call c
Spe(c, r) == Bit(r[SpiReg(c, "SPCR")], SPCR_SPE)

\* the position of the last register write of call c: the access before the
\* return
LastWrite(c) == Len(Body(c)) - 1

\* the call SpecSpi makes
SpiCall == calls[1]

\* C18: in setup_spi0 and setup_spi1, for every argument combination, SPCR
\* bit 6 (SPE) is 0 from the first write (SPCR = 0x00) through every write to
\* SSLP, SPBR, SPPCR, SPCR2, SPCMD0, SPDCR, SPDR and the interrupt enable
\* bits, and is set only by the last register write.
C18_DisabledWhileSetUp ==
  /\ [](/\ (main_pc = "setup" /\ step <= LastWrite(SpiCall))
             => Spe(SpiCall, reg) = 0
        /\ (main_pc = "setup" /\ step >= 3)
             => Made(Set(SpiReg(SpiCall, "SPCR"), \h00))
        /\ (main_pc # "setup" \/ step > LastWrite(SpiCall))
             => Spe(SpiCall, reg) = 1)
  /\ [][ /\ (main_pc = "setup" /\ step' # step /\ step < LastWrite(SpiCall))
              => (Spe(SpiCall, reg) = 0 /\ Spe(SpiCall, reg') = 0)
         /\ (Spe(SpiCall, reg) = 0 /\ Spe(SpiCall, reg') = 1)
              => /\ main_pc = "setup" /\ step = LastWrite(SpiCall)
                 /\ NextOp.k = "or" /\ NextOp.r = SpiReg(SpiCall, "SPCR")
       ]_vars

\* setup_spi0 in interrupt mode before its last register write: the three
\* interrupt enables are set, SPE is not
C18_Witness ==
  /\ main_pc = "setup"
  /\ calls[1].fn = "setup_spi0" /\ calls[1].IRQmode
  /\ step = LastWrite(calls[1])
  /\ reg["SPI0_SPCR"] = \hB0
  /\ reg["ICU_IELSR08"] = IRQ_SPI0_SPTI

\* C19: for every numBits in 0..15, on return of setup_spi0 and setup_spi1
\* SPDCR bit 5 (SPLW, word access) is 1 exactly when numBits < 4, and SPDCR
\* is 0x00 (halfword access) otherwise; SPCMD0 bits 8..11 equal numBits and
\* its other bits keep the base of the mode (0xE001 master, 0x0001 slave).
C19_FrameLength ==
  main_pc = "loop_test" =>
    LET c      == calls[1]
        spdcr  == reg[SpiReg(c, "SPDCR")]
        spcmd0 == reg[SpiReg(c, "SPCMD0")]
        base   == IF c.MSmode THEN \hE001 ELSE \h0001
    IN  /\ (Bit(spdcr, SPDCR_SPLW) = 1) <=> (c.numBits < 4)
        /\ c.numBits >= 4 => spdcr = \h00
        /\ c.numBits < 4 => spdcr = \h20
        /\ (spcmd0 \div 256) % 16 = c.numBits
        /\ spcmd0 - c.numBits * 256 = base

\* setup_spi1 has returned as a master with the unnamed length code 3: word
\* access, length field 3 over the master base
C19_Witness ==
  /\ main_pc = "loop_test"
  /\ calls[1] = Call("setup_spi1", TRUE, SPI_BR_8M0Hz, 3, FALSE)
  /\ reg["SPI1_SPDCR"] = \h20
  /\ reg["SPI1_SPCMD0"] = \hE301

\* C20: for every MSmode and IRQmode the value setup_spi0 and setup_spi1
\* return is the final SPCR: 0x40, plus 0x08 in master mode, plus 0xB0 in
\* interrupt mode (0x40, 0x48, 0xF0 or 0xF8).
C20_ReturnValue ==
  main_pc = "loop_test" =>
    LET c == calls[1] IN
    /\ retVal8 = reg[SpiReg(c, "SPCR")]
    /\ retVal8 = \h40 + (IF c.MSmode THEN \h08 ELSE 0)
                      + (IF c.IRQmode THEN \hB0 ELSE 0)
    /\ retVal8 \in {\h40, \h48, \hF0, \hF8}

\* setup_spi0 has returned 0xF8: master with interrupts
C20_Witness ==
  /\ main_pc = "loop_test"
  /\ calls[1].fn = "setup_spi0" /\ calls[1].MSmode /\ calls[1].IRQmode
  /\ retVal8 = \hF8
  /\ reg["SPI0_SPCR"] = \hF8


\* the event link registers of the four ICU slots the sketch uses
IelsrRegs == {"ICU_IELSR05", "ICU_IELSR06", "ICU_IELSR07", "ICU_IELSR08"}

\* slots 06, 07 and 08 are linked to the error, receive and transmit events
\* ei, ri, ti
SpiLinks(ei, ri, ti) ==
  /\ reg["ICU_IELSR06"] = ei
  /\ reg["ICU_IELSR07"] = ri
  /\ reg["ICU_IELSR08"] = ti

\* C21: after setup() completes, IELSR05 is linked to the GPT7 overflow event
\* (0x95) and IELSR06, IELSR07 and IELSR08 to the error, receive and
\* transmit events of SPI1 (0xB5, 0xB2, 0xB3), the controller set up in
\* interrupt mode; the SPI0 links written earlier in setup() (still in place
\* when setup_spi1 is entered) are overwritten, and setup_spi0, called in
\* polled mode, makes no access to an IELSR register.
C21_EventLinks ==
  /\ main_pc # "setup" =>
       /\ reg["ICU_IELSR05"] = IRQ_GPT7_OVF
       /\ SpiLinks(IRQ_SPI1_SPEI, IRQ_SPI1_SPRI, IRQ_SPI1_SPTI)
  /\ (main_pc = "setup" /\ calls[call].fn = "setup_spi1" /\ step = 1) =>
       /\ calls[call].IRQmode
       /\ reg["ICU_IELSR05"] = IRQ_GPT7_OVF
       /\ SpiLinks(IRQ_SPI0_SPEI, IRQ_SPI0_SPRI, IRQ_SPI0_SPTI)
  /\ Completed("setup_spi1") =>
       SpiLinks(IRQ_SPI1_SPEI, IRQ_SPI1_SPRI, IRQ_SPI1_SPTI)
  /\ (main_pc = "setup" /\ calls[call].fn = "setup_spi0") =>
       /\ ~calls[call].IRQmode
       /\ NextOp.r \notin IelsrRegs

\* setup() has returned and loop() runs with the four links in place
C21_Witness ==
  /\ main_pc = "loop_test"
  /\ Completed("setup_agt")
  /\ reg["ICU_IELSR05"] = \h95
  /\ reg["ICU_IELSR06"] = \hB5
  /\ reg["ICU_IELSR07"] = \hB2
  /\ reg["ICU_IELSR08"] = \hB3


\* what a status r of SPI0_SPSR shows: MODF (bit 2) is set by a mode fault
\* and by an underrun, and UDRF (bit 4) tells the two apart
ShowsModeFault(r) == Bit(r, SPSR_MODF) = 1 /\ Bit(r, SPSR_UDRF) = 0
ShowsUnderrun(r) == Bit(r, SPSR_MODF) = 1 /\ Bit(r, SPSR_UDRF) = 1

\* C22 as stated: when the SPI0 status read at the error check of
\* timer7interrupt shows a mode fault error or an underrun error, the handler
\* takes the error branch and the branch clears the error flag, so that the
\* status it stores shows no error (neither MODF nor UDRF); when the status
\* shows neither, the check leaves the registers alone.
C22_ErrorFlagCleared ==
  [][ /\ \A r \in Spsr0Reads :
           Spi0ErrRead(r) =>
             IF ShowsModeFault(r) \/ ShowsUnderrun(r)
             THEN isr_pc' = "spi0_errclr"
             ELSE isr_pc' = "spi1_clear" /\ reg' = reg
      /\ (isr_pc = "spi0_errclr" /\ isr_pc' # isr_pc) =>
           /\ Bit(reg'["SPI0_SPSR"], SPSR_MODF) = 0
           /\ Bit(reg'["SPI0_SPSR"], SPSR_UDRF) = 0
    ]_vars

\* C22, amended: when the status read at the error check has bit 2 (MODF)
\* set, as it is for a mode fault and for an underrun, the handler takes the
\* error branch; the branch is entered from the check only and its write
\* *SPI0_SPSR &= 0xFB stores the status it reads with bit 2 cleared and
\* every other bit as read, so an underrun flag (bit 4) is stored back set.
\* When bit 2 is clear the handler goes on to the SPI1 section; the check
\* itself writes no register on either path, and in the handler SPI0_SPSR
\* is stored to only by the clear at the start of the SPI0 section and by
\* the error branch. Every status the hardware may show can be read at the
\* check.
C22_ErrorBranch ==
  /\ [](/\ isr_pc = "spi0_err" => \A r \in Spsr0Reads : ENABLED Spi0ErrRead(r)
        /\ isr_pc = "spi0_errclr" => (test = \h04 /\ ENABLED T7_Spi0ErrClr))
  /\ [][ /\ \A r \in Spsr0Reads :
              Spi0ErrRead(r) =>
                /\ reg' = reg
                /\ IF ShowsModeFault(r) \/ ShowsUnderrun(r)
                   THEN isr_pc' = "spi0_errclr"
                   ELSE isr_pc' = "spi1_clear"
         /\ (isr_pc = "spi0_err" /\ isr_pc' # isr_pc) =>
              \E r \in Spsr0Reads : Spi0ErrRead(r)
         /\ (isr_pc = "spi0_errclr" /\ isr_pc' # isr_pc) =>
              /\ isr_pc' = "spi1_clear"
              /\ \E r \in Spsr0Reads :
                   /\ reg'["SPI0_SPSR"] = BitAnd(r, \hFB)
                   /\ Bit(reg'["SPI0_SPSR"], SPSR_UDRF) = Bit(r, SPSR_UDRF)
              /\ Bit(reg'["SPI0_SPSR"], SPSR_MODF) = 0
              /\ \A x \in Regs \ {"SPI0_SPSR", "PFS_P106PFS_BY"} :
                   reg'[x] = reg[x]
         /\ (isr_pc # "spi0_errclr" /\ isr_pc' = "spi0_errclr") =>
              isr_pc = "spi0_err"
         /\ (isr_pc \in T7Pcs /\ reg'["SPI0_SPSR"] # reg["SPI0_SPSR"]) =>
              isr_pc \in {"spi0_clear", "spi0_errclr"}
       ]_vars

\* the check has read an error status, the error branch has read an underrun
\* (MODF and UDRF) and has stored it with MODF cleared and UDRF still set
C22_Witness ==
  /\ isr_pc = "spi1_clear"
  /\ test = \h04
  /\ reg["SPI0_SPSR"] = \h10
  /\ invocations = LOOP_COUNT_VAL

=============================================================================
